---------------------------- MODULE Spec2Model ----------------------------
(***************************************************************************)
(* ThinkFast browser extension: the background usage tracker               *)
(* (service-worker.ts, usage-monitor.ts, session-detector.ts,              *)
(* intervention-scheduler.ts), the cloud sync (supabase.ts, AccountManager)*)
(* and the content selection (intervention-engine.ts).                     *)
(*                                                                         *)
(* JavaScript runs one handler at a time, and a handler gives up the       *)
(* thread only at an await of a browser API (chrome.storage, chrome.tabs,  *)
(* the network).  A handler in flight is a record of the sequence `tasks`; *)
(* `running` is the index of the task that holds the thread (0: the event  *)
(* loop is idle).  A step whose label is in YieldPcs resumes a task whose  *)
(* awaited call has completed; every other step continues the running task *)
(* and nothing else can happen in between.                                 *)
(*                                                                         *)
(* The clock `now` counts minutes: timerDurationMinutes * 60 * 1000 ms is  *)
(* timerDurationMinutes ticks, totalDuration / 60000 is totalDuration.     *)
(***************************************************************************)
EXTENDS Integers, Sequences, FiniteSets, TLC

(***************************************************************************)
(* Bounds of the model.                                                    *)
(***************************************************************************)
MaxTime == 3
MaxSessions == 2
MaxTasks == 2
MaxEvents == 2

(***************************************************************************)
(* URLs and patterns.  A URL is a string; Chars gives its characters       *)
(* (TLC cannot index a string).                                            *)
(***************************************************************************)
UrlSite == "https://www.fb.com/"
UrlSiteFeed == "https://www.fb.com/feed"
UrlOther == "https://news.org/"
UrlOtherQuery == "https://news.org/?u=https://www.fb.com/"
UrlNewTab == "chrome://newtab/"
PatternSite == "*://*.fb.com/*"

Urls == {UrlSite, UrlSiteFeed, UrlOther, UrlOtherQuery, UrlNewTab}

Chars(s) ==
  CASE s = UrlSite -> <<"h","t","t","p","s",":","/","/","w","w","w",".","f","b",".","c","o","m","/">>
    [] s = UrlSiteFeed -> <<"h","t","t","p","s",":","/","/","w","w","w",".","f","b",".","c","o","m","/","f","e","e","d">>
    [] s = UrlOther -> <<"h","t","t","p","s",":","/","/","n","e","w","s",".","o","r","g","/">>
    [] s = UrlOtherQuery -> <<"h","t","t","p","s",":","/","/","n","e","w","s",".","o","r","g","/","?","u","=","h","t","t","p","s",":","/","/","w","w","w",".","f","b",".","c","o","m","/">>
    [] s = UrlNewTab -> <<"c","h","r","o","m","e",":","/","/","n","e","w","t","a","b","/">>
    [] s = PatternSite -> <<"*",":","/","/","*",".","f","b",".","c","o","m","/","*">>
    [] s = "chrome://" -> <<"c","h","r","o","m","e",":","/","/">>
    [] s = "chrome-extension://" -> <<"c","h","r","o","m","e","-","e","x","t","e","n","s","i","o","n",":","/","/">>
    [] s = "about:" -> <<"a","b","o","u","t",":">>
    [] s = "edge://" -> <<"e","d","g","e",":","/","/">>
    [] s = "opera://" -> <<"o","p","e","r","a",":","/","/">>
    [] s = "brave://" -> <<"b","r","a","v","e",":","/","/">>
    [] s = "vivaldi://" -> <<"v","i","v","a","l","d","i",":","/","/">>
    [] s = "data:" -> <<"d","a","t","a",":">>
    [] s = "file://" -> <<"f","i","l","e",":","/","/">>
    [] s = "view-source:" -> <<"v","i","e","w","-","s","o","u","r","c","e",":">>

\* String.prototype.startsWith
StartsWith(s, prefix) ==
  LET cs == Chars(s)
      ps == Chars(prefix)
  IN  /\ Len(ps) <= Len(cs)
      /\ SubSeq(cs, 1, Len(ps)) = ps

(***************************************************************************)
(* UsageMonitor.matchPattern: the pattern is rewritten into a regular      *)
(* expression ('.' and '?' escaped to literals, '*' turned into '.*'),     *)
(* anchored with ^ and $, and tested against the whole URL.  The regular   *)
(* expression is a sequence of atoms: <<"lit", c>> matches the character   *)
(* c, <<"any">> is '.*'.                                                   *)
(***************************************************************************)
PatternToRegex(pattern) ==
  [i \in DOMAIN pattern |->
     IF pattern[i] = "*" THEN <<"any">> ELSE <<"lit", pattern[i]>>]

RECURSIVE RegexTest(_, _)
RegexTest(regex, cs) ==
  IF regex = <<>> THEN cs = <<>>
  ELSE IF Head(regex) = <<"any">>
       THEN \/ RegexTest(Tail(regex), cs)
            \/ (cs # <<>> /\ RegexTest(regex, Tail(cs)))
       ELSE /\ cs # <<>>
            /\ Head(cs) = Head(regex)[2]
            /\ RegexTest(Tail(regex), Tail(cs))

matchPattern(pattern, url) ==
  RegexTest(PatternToRegex(Chars(pattern)), Chars(url))

\* A tracked site as stored in settings.trackedSites.
SiteFb == [pattern |-> PatternSite, name |-> "Facebook", dailyLimitMinutes |-> 30]

SiteNames == {"Facebook"}

NoSite == [pattern |-> "", name |-> "", dailyLimitMinutes |-> 0]

\* UsageMonitor.matchTrackedSite: the first site of the list whose pattern
\* matches, NoSite standing for null.
RECURSIVE matchTrackedSite(_, _)
matchTrackedSite(sites, url) ==
  IF sites = <<>> THEN NoSite
  ELSE IF matchPattern(Head(sites).pattern, url) THEN Head(sites)
       ELSE matchTrackedSite(Tail(sites), url)

\* SessionDetector.isValidTabUrl
invalidPrefixes ==
  <<"chrome://", "chrome-extension://", "about:", "edge://", "opera://",
    "brave://", "vivaldi://", "data:", "file://", "view-source:">>

isValidTabUrl(url) ==
  ~ \E k \in DOMAIN invalidPrefixes : StartsWith(url, invalidPrefixes[k])


(***************************************************************************)
(* State.                                                                  *)
(***************************************************************************)
VARIABLES
  \* the browser: the URL of every tab (Closed once removed), the active
  \* tab of the window (0: none), the clock
  tabs, activeTab, now,
  \* UsageMonitor
  currentTabId, currentUrl, sessionStartTime, isUserActive,
  isBrowserFocused, isEnabled, trackedSites,
  \* the constructor's loads still awaiting storage
  loading,
  \* SessionDetector of the UsageMonitor: currentSession is a reference
  \* (0: null) into sessionObjects, the Session objects created so far
  currentSession, sessionObjects,
  \* InterventionScheduler
  snoozedUntil,
  \* chrome.storage: settings (sync), monitoringEnabled, the stats of the
  \* day, the ids of the saved sessions (local)
  settings, monitoringEnabled, dailyStats, storedSessions,
  \* what the background has put out: the last SHOW_INTERVENTION delivered
  \* to a tab, the browser notifications created
  sent, notifications,
  \* the handlers in flight and the one holding the thread
  tasks, running,
  \* the number of events of the browser and the user so far
  events,
  \* the account: the user the Supabase client holds a session of (0: none)
  authUser,
  \* chrome.storage.local: the goals and the intervention results
  goals, interventionResults,
  \* the cloud: the user's row of user_settings (NoSettings: none), the
  \* rows of goals and of intervention_results, and every write request
  \* sent to it, with the user signed in when it was sent
  cloudSettings, cloudGoals, cloudResults, writes,
  \* the pushes and pulls in flight
  jobs,
  \* InterventionEngine of a page: the ids of the content shown last; and
  \* the type, context and weights of the first selection made and of the
  \* latest (<<>>: none yet), and the number of selections
  lastShownContent, first, selected, selections,
  \* the SessionDetector the service worker creates for its message
  \* handlers (service-worker.ts 16): its currentSession (0: null)
  workerSession,
  \* the runtime messages the background has received, each with the
  \* responses sent for it
  messages,
  \* whether the background has loaded its tracked sites since the goals
  \* were last changed
  reloaded,
  \* the time of the last checkUsage alarm (0: none yet)
  lastCheck,
  \* the overlay shown in a page (NoOverlay: none) and the results it has
  \* passed to onResult
  overlay, overlayResults

browserVars == <<tabs, activeTab>>
monitorVars == <<currentTabId, currentUrl, sessionStartTime, isUserActive,
                 isBrowserFocused, isEnabled, trackedSites, loading>>
detectorVars == <<currentSession, sessionObjects>>
storageVars == <<settings, monitoringEnabled, dailyStats, storedSessions>>
outputVars == <<sent, notifications>>
syncVars == <<authUser, goals, interventionResults, cloudSettings, cloudGoals,
              cloudResults, writes, jobs>>
engineVars == <<lastShownContent, first, selected, selections>>
pageVars == <<workerSession, messages, reloaded, lastCheck, overlay,
              overlayResults>>
vars == <<tabs, activeTab, now, currentTabId, currentUrl, sessionStartTime,
          isUserActive, isBrowserFocused, isEnabled, trackedSites, loading,
          currentSession, sessionObjects, snoozedUntil, settings,
          monitoringEnabled, dailyStats, storedSessions, sent, notifications,
          tasks, running, events, syncVars, engineVars, pageVars>>

TabIds == {1, 2}
Closed == "closed"
NoUrl == "null"
NoMessage == [type |-> "none", tabUrl |-> NoUrl, session |-> 0, time |-> 0]

\* No overlay is shown in the page.
NoOverlay == [style |-> "none", styled |-> FALSE, canProceed |-> FALSE,
              countdown |-> 0, delaySeconds |-> 0, loaded |-> FALSE,
              interval |-> FALSE, elapsed |-> 0]

\* StorageService.getDefaultSettings, with the sites the user has configured
getDefaultSettings ==
  [timerDurationMinutes |-> 10, alwaysShowReminder |-> TRUE,
   trackedSites |-> <<>>, notificationsEnabled |-> TRUE]

\* No row of user_settings: pullSettings returns null.
NoSettings == [timerDurationMinutes |-> 0, alwaysShowReminder |-> FALSE,
               trackedSites |-> <<>>, notificationsEnabled |-> FALSE]

\* StorageService.createEmptyStats
createEmptyStats ==
  [totalMinutes |-> 0, sessionCount |-> 0,
   siteBreakdown |-> [n \in SiteNames |-> 0],
   interventionsShown |-> 0, goBackCount |-> 0, proceedCount |-> 0]

\* A handler in flight: its label, its locals (url, tab, the duration and
\* the Session reference it holds, whether to show the reminder), the
\* label it returns to when the call it is in completes, and the message
\* it handles (0: none).
Task(pc, url, tab, ret) ==
  [pc |-> pc, url |-> url, tab |-> tab, dur |-> 0, sess |-> 0,
   rem |-> FALSE, site |-> "", limit |-> 0, type |-> "", ret |-> ret,
   msg |-> 0]

\* The labels at which a task awaits a browser API.
YieldPcs ==
  {"tabsGet", "focus_query", "end_getSessions", "end_setSessions",
   "end_getDailyStats", "end_saveDailyStats", "start_getSettings",
   "start_getSessions", "start_setSessions", "show_query",
   "show_getDailyStats", "show_getGoals", "show_sendMessage",
   "upd_getSettings", "upd_getSessions", "upd_setSessions",
   "stop_set", "start_set", "morning_getSettings", "evening_getSettings",
   "evening_getDailyStats", "reload_getSettings", "stats_getDailyStats",
   "close_query", "rec_getResults", "rec_setResults", "rec_getDailyStats",
   "rec_saveDailyStats"}

Idle == running = 0
CanSpawn(n) == Idle /\ Len(tasks) + n <= MaxTasks

\* Task i is at `pc` and may take its step: its awaited call completed and
\* the thread is free, or it holds the thread.
At(i, pc) ==
  /\ i \in DOMAIN tasks
  /\ tasks[i].pc = pc
  /\ running = (IF pc \in YieldPcs THEN 0 ELSE i)

Remove(seq, i) == SubSeq(seq, 1, i - 1) \o SubSeq(seq, i + 1, Len(seq))

\* Task i goes on as record t.
Continue(i, t) ==
  /\ tasks' = [tasks EXCEPT ![i] = t]
  /\ running' = (IF t.pc \in YieldPcs THEN 0 ELSE i)

\* Task i ends: its handler returned, or threw.
Finish(i) ==
  /\ tasks' = Remove(tasks, i)
  /\ running' = 0

\* Task i returns from the call it is in, to the label it was called from.
Return(i) ==
  IF tasks[i].ret = "done" THEN Finish(i)
  ELSE Continue(i, [tasks[i] EXCEPT !.pc = tasks[i].ret, !.ret = "done"])

\* An event of the browser or of the user that the background handles,
\* within the bound; the account and the cloud are not touched.
Event ==
  /\ events < MaxEvents
  /\ events' = events + 1
  /\ UNCHANGED <<syncVars, engineVars, pageVars>>

\* A step of a handler of the background: no new event.
Step == UNCHANGED <<events, syncVars, engineVars, pageVars>>

\* A new handler starts as task t.
Spawn(t) ==
  /\ tasks' = Append(tasks, t)
  /\ running' = (IF t.pc \in YieldPcs THEN 0 ELSE Len(tasks) + 1)

(***************************************************************************)
(* Runtime messages (service-worker.ts 258-269): the listener calls        *)
(* handleMessage and sends what it resolves to as the response, or         *)
(* {success: false, error} when it rejects.  A message is kept with the    *)
(* responses sent for it and with whether its handler has changed the      *)
(* state of the tracker, the snooze or the storage.                        *)
(***************************************************************************)
Message(type, data, answers, changed) ==
  [type |-> type, data |-> data, answers |-> answers, changed |-> changed]

\* {success: true} and {success: true, data}
Success(data) == [success |-> TRUE, data |-> data, error |-> ""]

\* {success: false, error}
Failure(error) == [success |-> FALSE, data |-> 0, error |-> error]

\* A message arrives, within the bound of the events.
Receive ==
  /\ events < MaxEvents
  /\ events' = events + 1
  /\ UNCHANGED <<syncVars, engineVars, workerSession, reloaded, lastCheck,
                 overlay, overlayResults>>

\* A step of the handler of a message.
Handling ==
  UNCHANGED <<events, engineVars, workerSession, reloaded, lastCheck, overlay,
              overlayResults>>

\* sendResponse(answer) for message k
Respond(k, answer, changed) ==
  messages' = [messages EXCEPT ![k].answers = Append(@, answer),
                               ![k].changed = @ \/ changed]

Init ==
  /\ tabs = [t \in TabIds |-> UrlOther]
  /\ activeTab = 1
  /\ now = 1
  /\ currentTabId = 0
  /\ currentUrl = NoUrl
  /\ sessionStartTime = 0
  /\ isUserActive = TRUE
  /\ isBrowserFocused = TRUE
  /\ isEnabled = TRUE
  /\ trackedSites = <<>>
  /\ loading = {"trackedSites", "monitoringState"}
  /\ currentSession = 0
  /\ sessionObjects = <<>>
  /\ snoozedUntil = 0
  /\ settings \in {[getDefaultSettings EXCEPT !.trackedSites = <<SiteFb>>,
                                              !.timerDurationMinutes = 1,
                                              !.alwaysShowReminder = b] :
                     b \in BOOLEAN}
  /\ monitoringEnabled = TRUE
  /\ dailyStats = createEmptyStats
  /\ storedSessions = <<>>
  /\ sent = NoMessage
  /\ notifications = <<>>
  /\ tasks = <<>>
  /\ running = 0
  /\ events = 0
  /\ authUser = 0
  /\ goals = <<>>
  /\ interventionResults = <<>>
  /\ cloudSettings = NoSettings
  /\ cloudGoals = <<>>
  /\ cloudResults = <<>>
  /\ writes = <<>>
  /\ jobs = <<>>
  /\ lastShownContent = <<>>
  /\ first = <<>>
  /\ selected = <<>>
  /\ selections = 0
  /\ workerSession = 0
  /\ messages = <<>>
  /\ reloaded = FALSE
  /\ lastCheck = 0
  /\ overlay = NoOverlay
  /\ overlayResults = <<>>


(***************************************************************************)
(* The browser and the user: tab events (service-worker.ts 102-126).       *)
(***************************************************************************)

\* The user switches to tab t: chrome.tabs.onActivated, whose listener
\* first awaits chrome.tabs.get.
UserActivatesTab(t) ==
  /\ Event
  /\ CanSpawn(1)
  /\ tabs[t] # Closed
  /\ t # activeTab
  /\ activeTab' = t
  /\ Spawn(Task("tabsGet", NoUrl, t, "done"))
  /\ UNCHANGED <<tabs, now, monitorVars, detectorVars, snoozedUntil,
                 storageVars, outputVars>>

\* The active tab goes to URL u: chrome.tabs.onUpdated with changeInfo.url
\* and tab.active; the listener calls onTabActivated unless the URL is a
\* chrome:// one.
UserNavigates(u) ==
  /\ Event
  /\ Idle
  /\ activeTab # 0
  /\ tabs[activeTab] # u
  /\ tabs' = [tabs EXCEPT ![activeTab] = u]
  /\ IF StartsWith(u, "chrome://")
       THEN UNCHANGED <<tasks, running>>
       ELSE /\ CanSpawn(1)
            /\ Spawn(Task("onTabActivated", u, activeTab, "done"))
  /\ UNCHANGED <<activeTab, now, monitorVars, detectorVars, snoozedUntil,
                 storageVars, outputVars>>

\* The user closes tab t: chrome.tabs.onRemoved, whose listener ends the
\* session when t is UsageMonitor's current tab; if t was active the other
\* tab becomes the active one (onActivated).
UserClosesTab(t) ==
  LET others == {o \in TabIds : o # t /\ tabs[o] # Closed}
      next == IF t # activeTab THEN activeTab
              ELSE IF others = {} THEN 0 ELSE CHOOSE o \in others : TRUE
      removed == IF currentTabId = t
                   THEN <<Task("endCurrentSession", NoUrl, t, "done")>>
                   ELSE <<>>
      activated == IF next # activeTab /\ next # 0
                     THEN <<Task("tabsGet", NoUrl, next, "done")>>
                     ELSE <<>>
  IN  /\ Event
      /\ CanSpawn(Len(removed) + Len(activated))
      /\ tabs[t] # Closed
      /\ tabs' = [tabs EXCEPT ![t] = Closed]
      /\ activeTab' = next
      /\ tasks' = tasks \o activated \o removed
      /\ running' = IF removed = <<>> THEN 0 ELSE Len(tasks')
      /\ UNCHANGED <<now, monitorVars, detectorVars, snoozedUntil,
                     storageVars, outputVars>>

\* service-worker.ts 104-107: the tab has been read.
TabsGet(i) ==
  /\ Step
  /\ At(i, "tabsGet")
  /\ LET t == tasks[i]
     IN  IF tabs[t.tab] = Closed \/ StartsWith(tabs[t.tab], "chrome://")
           THEN Finish(i)
           ELSE Continue(i, [t EXCEPT !.pc = "onTabActivated",
                                      !.url = tabs[t.tab]])
  /\ UNCHANGED <<browserVars, now, monitorVars, detectorVars, snoozedUntil,
                 storageVars, outputVars>>

(***************************************************************************)
(* UsageMonitor.onTabActivated (usage-monitor.ts 46-68).                   *)
(***************************************************************************)
OnTabActivated(i) ==
  /\ Step
  /\ At(i, "onTabActivated")
  /\ LET t == tasks[i]
     IN  IF ~isEnabled THEN Finish(i)
         ELSE IF currentUrl # NoUrl /\ currentUrl # t.url
                THEN Continue(i, [t EXCEPT !.pc = "endCurrentSession",
                                           !.ret = "activate"])
                ELSE Continue(i, [t EXCEPT !.pc = "activate"])
  /\ UNCHANGED <<browserVars, now, monitorVars, detectorVars, snoozedUntil,
                 storageVars, outputVars>>

\* usage-monitor.ts 60-67
Activate(i) ==
  /\ Step
  /\ At(i, "activate")
  /\ LET t == tasks[i]
         site == matchTrackedSite(trackedSites, t.url)
     IN  /\ currentTabId' = t.tab
         /\ currentUrl' = t.url
         /\ IF site # NoSite
              THEN Continue(i, [t EXCEPT !.pc = "startSession",
                                         !.site = site.name,
                                         !.limit = site.dailyLimitMinutes])
              ELSE Finish(i)
  /\ UNCHANGED <<browserVars, now, sessionStartTime, isUserActive,
                 isBrowserFocused, isEnabled, trackedSites, loading,
                 detectorVars, snoozedUntil, storageVars, outputVars>>

\* UsageMonitor.startSession (usage-monitor.ts 110-115) up to the first
\* await of SessionDetector.startSession (shouldShowReminder: getSettings).
StartSession(i) ==
  /\ Step
  /\ At(i, "startSession")
  /\ sessionStartTime' = now
  /\ Continue(i, [tasks[i] EXCEPT !.pc = "start_getSettings"])
  /\ UNCHANGED <<browserVars, now, currentTabId, currentUrl, isUserActive,
                 isBrowserFocused, isEnabled, trackedSites, loading,
                 detectorVars, snoozedUntil, storageVars, outputVars>>

\* UsageMonitor.endCurrentSession (usage-monitor.ts 120-128), to the call of
\* SessionDetector.endSession.
EndCurrentSession(i) ==
  /\ Step
  /\ At(i, "endCurrentSession")
  /\ IF sessionStartTime # 0 /\ currentUrl # NoUrl
       THEN Continue(i, [tasks[i] EXCEPT !.pc = "endSession",
                                         !.dur = now - sessionStartTime])
       ELSE Return(i)
  /\ UNCHANGED <<browserVars, now, monitorVars, detectorVars, snoozedUntil,
                 storageVars, outputVars>>

\* usage-monitor.ts 126: endSession has returned.
EndCurrentSessionAfter(i) ==
  /\ Step
  /\ At(i, "endCurrentSession_after")
  /\ sessionStartTime' = 0
  /\ Return(i)
  /\ UNCHANGED <<browserVars, now, currentTabId, currentUrl, isUserActive,
                 isBrowserFocused, isEnabled, trackedSites, loading,
                 detectorVars, snoozedUntil, storageVars, outputVars>>


(***************************************************************************)
(* SessionDetector (session-detector.ts).                                  *)
(***************************************************************************)

\* Array.findIndex(s => s.id === id): 0 when there is none.
findIndex(sessions, id) ==
  IF \E k \in DOMAIN sessions : sessions[k].id = id
    THEN CHOOSE k \in DOMAIN sessions :
           /\ sessions[k].id = id
           /\ \A j \in 1..(k - 1) : sessions[j].id # id
    ELSE 0

\* startSession 19-34: the settings have been read; the Session is created
\* and saveSession awaits the stored sessions.
StartGetSettings(i) ==
  /\ Step
  /\ At(i, "start_getSettings")
  /\ Len(sessionObjects) < MaxSessions
  /\ LET t == tasks[i]
         id == Len(sessionObjects) + 1
     IN  /\ sessionObjects' = Append(sessionObjects,
              [id |-> id, siteName |-> t.site, url |-> t.url,
               startTime |-> now, lastActiveTime |-> now,
               totalDuration |-> 0, timerStartTime |-> now,
               lastTimerAlertTime |-> 0, dailyLimitMinutes |-> t.limit])
         /\ currentSession' = id
         /\ Continue(i, [t EXCEPT !.pc = "start_getSessions", !.sess = id,
                                  !.rem = settings.alwaysShowReminder])
  /\ UNCHANGED <<browserVars, now, monitorVars, snoozedUntil, storageVars,
                 outputVars>>

\* StorageService.saveSession: push and set.
StartGetSessions(i) ==
  /\ Step
  /\ At(i, "start_getSessions")
  /\ storedSessions' = Append(storedSessions, sessionObjects[tasks[i].sess])
  /\ Continue(i, [tasks[i] EXCEPT !.pc = "start_setSessions"])
  /\ UNCHANGED <<browserVars, now, monitorVars, detectorVars, snoozedUntil,
                 settings, monitoringEnabled, dailyStats, outputVars>>

\* startSession 36-39
StartSetSessions(i) ==
  /\ Step
  /\ At(i, "start_setSessions")
  /\ IF tasks[i].rem
       THEN Continue(i, [tasks[i] EXCEPT !.pc = "showOverlay",
                                         !.type = "REMINDER", !.ret = "done"])
       ELSE Finish(i)
  /\ UNCHANGED <<browserVars, now, monitorVars, detectorVars, snoozedUntil,
                 storageVars, outputVars>>

\* endSession 71-79, to the await in StorageService.updateSession.
EndSession(i) ==
  /\ Step
  /\ At(i, "endSession")
  /\ IF currentSession = 0
       THEN /\ Continue(i, [tasks[i] EXCEPT !.pc = "endCurrentSession_after"])
            /\ UNCHANGED sessionObjects
       ELSE /\ sessionObjects' = [sessionObjects EXCEPT
                 ![currentSession].totalDuration = tasks[i].dur]
            /\ Continue(i, [tasks[i] EXCEPT !.pc = "end_getSessions",
                                            !.sess = currentSession])
  /\ UNCHANGED <<browserVars, now, monitorVars, currentSession, snoozedUntil,
                 storageVars, outputVars>>

\* StorageService.updateSession (from saveCompletedSession): the stored
\* sessions have been read; the entry of this session is rewritten.
EndGetSessions(i) ==
  /\ Step
  /\ At(i, "end_getSessions")
  /\ LET t == tasks[i]
         k == findIndex(storedSessions, t.sess)
     IN  IF k # 0
           THEN /\ storedSessions' =
                     [storedSessions EXCEPT ![k] = sessionObjects[t.sess]]
                /\ Continue(i, [t EXCEPT !.pc = "end_setSessions"])
           ELSE /\ UNCHANGED storedSessions
                /\ Continue(i, [t EXCEPT !.pc = "end_updateDailyStats"])
  /\ UNCHANGED <<browserVars, now, monitorVars, detectorVars, snoozedUntil,
                 settings, monitoringEnabled, dailyStats, outputVars>>

EndSetSessions(i) ==
  /\ Step
  /\ At(i, "end_setSessions")
  /\ Continue(i, [tasks[i] EXCEPT !.pc = "end_updateDailyStats"])
  /\ UNCHANGED <<browserVars, now, monitorVars, detectorVars, snoozedUntil,
                 storageVars, outputVars>>

\* endSession 82: updateDailyStats(this.currentSession) is called with what
\* currentSession is now, and awaits the stats of the day.
EndUpdateDailyStats(i) ==
  /\ Step
  /\ At(i, "end_updateDailyStats")
  /\ Continue(i, [tasks[i] EXCEPT !.pc = "end_getDailyStats",
                                  !.sess = currentSession])
  /\ UNCHANGED <<browserVars, now, monitorVars, detectorVars, snoozedUntil,
                 storageVars, outputVars>>

\* updateDailyStats 308-315: with a null session the read of totalDuration
\* throws and the handler ends there; otherwise the session is added to the
\* stats, which are saved.
EndGetDailyStats(i) ==
  /\ Step
  /\ At(i, "end_getDailyStats")
  /\ LET t == tasks[i]
     IN  IF t.sess = 0
           THEN /\ Finish(i)
                /\ UNCHANGED dailyStats
           ELSE LET session == sessionObjects[t.sess]
                    sessionMinutes == session.totalDuration
                IN  /\ dailyStats' =
                         [dailyStats EXCEPT
                            !.totalMinutes = @ + sessionMinutes,
                            !.sessionCount = @ + 1,
                            !.siteBreakdown[session.siteName] =
                               @ + sessionMinutes]
                    /\ Continue(i, [t EXCEPT !.pc = "end_saveDailyStats"])
  /\ UNCHANGED <<browserVars, now, monitorVars, detectorVars, snoozedUntil,
                 settings, monitoringEnabled, storedSessions, outputVars>>

\* endSession 84
EndSaveDailyStats(i) ==
  /\ Step
  /\ At(i, "end_saveDailyStats")
  /\ currentSession' = 0
  /\ Continue(i, [tasks[i] EXCEPT !.pc = "endCurrentSession_after"])
  /\ UNCHANGED <<browserVars, now, monitorVars, sessionObjects, snoozedUntil,
                 storageVars, outputVars>>


\* showReminderOverlay / showTimerOverlay 130-139, 181-190
ShowOverlay(i) ==
  /\ Step
  /\ At(i, "showOverlay")
  /\ IF currentSession = 0
       THEN Return(i)
       ELSE Continue(i, [tasks[i] EXCEPT !.pc = "show_query"])
  /\ UNCHANGED <<browserVars, now, monitorVars, detectorVars, snoozedUntil,
                 storageVars, outputVars>>

\* 139-172: the active tab has been read.  The message is built for that
\* tab with what currentSession is now, and buildContext awaits the stats.
\* (A tab that is still loading is waited for; the wait changes nothing.)
ShowQuery(i) ==
  /\ Step
  /\ At(i, "show_query")
  /\ IF activeTab = 0 \/ ~isValidTabUrl(tabs[activeTab])
       THEN Return(i)
       ELSE Continue(i, [tasks[i] EXCEPT !.pc = "show_getDailyStats",
                                         !.tab = activeTab,
                                         !.sess = currentSession])
  /\ UNCHANGED <<browserVars, now, monitorVars, detectorVars, snoozedUntil,
                 storageVars, outputVars>>

\* buildContext 268-269
ShowGetDailyStats(i) ==
  /\ Step
  /\ At(i, "show_getDailyStats")
  /\ Continue(i, [tasks[i] EXCEPT !.pc = "show_getGoals"])
  /\ UNCHANGED <<browserVars, now, monitorVars, detectorVars, snoozedUntil,
                 storageVars, outputVars>>

\* chrome.tabs.sendMessage(tab.id, SHOW_INTERVENTION): delivered to the
\* content script of the tab; a closed tab or a page without content script
\* rejects, which is caught.
ShowGetGoals(i) ==
  /\ Step
  /\ At(i, "show_getGoals")
  /\ LET t == tasks[i]
     IN  IF tabs[t.tab] = Closed \/ ~isValidTabUrl(tabs[t.tab])
           THEN /\ Return(i)
                /\ UNCHANGED sent
           ELSE /\ sent' = [type |-> t.type, tabUrl |-> tabs[t.tab],
                            session |-> t.sess, time |-> now]
                /\ Continue(i, [t EXCEPT !.pc = "show_sendMessage"])
  /\ UNCHANGED <<browserVars, now, monitorVars, detectorVars, snoozedUntil,
                 storageVars, notifications>>

ShowSendMessage(i) ==
  /\ Step
  /\ At(i, "show_sendMessage")
  /\ Return(i)
  /\ UNCHANGED <<browserVars, now, monitorVars, detectorVars, snoozedUntil,
                 storageVars, outputVars>>

(***************************************************************************)
(* The checkUsage alarm: UsageMonitor.checkCurrentSession (133-148) and    *)
(* SessionDetector.updateSession (45-66).  The alarm has a period of one   *)
(* minute (service-worker.ts 72): it fires at most once in a minute.       *)
(***************************************************************************)
CheckUsageAlarm ==
  /\ events < MaxEvents
  /\ events' = events + 1
  /\ lastCheck < now
  /\ lastCheck' = now
  /\ CanSpawn(1)
  /\ isEnabled
  /\ isUserActive /\ isBrowserFocused
  /\ sessionStartTime # 0
  /\ currentSession # 0
  /\ sessionObjects' = [sessionObjects EXCEPT
       ![currentSession].totalDuration = now - sessionStartTime,
       ![currentSession].lastActiveTime = now]
  /\ Spawn(Task("upd_getSettings", NoUrl, 0, "done"))
  /\ UNCHANGED <<browserVars, now, monitorVars, currentSession, snoozedUntil,
                 storageVars, outputVars, syncVars, engineVars, workerSession,
                 messages, reloaded, overlay, overlayResults>>

\* updateSession 52-62
UpdGetSettings(i) ==
  /\ Step
  /\ At(i, "upd_getSettings")
  /\ IF currentSession = 0
       THEN Finish(i)
       ELSE LET session == sessionObjects[currentSession]
                timerDurationMs == settings.timerDurationMinutes
            IN  IF /\ now - session.timerStartTime >= timerDurationMs
                   /\ now - session.lastTimerAlertTime > timerDurationMs
                  THEN Continue(i, [tasks[i] EXCEPT !.pc = "showOverlay",
                                                    !.type = "TIMER",
                                                    !.ret = "upd_afterTimer"])
                  ELSE Continue(i, [tasks[i] EXCEPT !.pc = "upd_updateSession"])
  /\ UNCHANGED <<browserVars, now, monitorVars, detectorVars, snoozedUntil,
                 storageVars, outputVars>>

\* updateSession 61
UpdAfterTimer(i) ==
  /\ Step
  /\ At(i, "upd_afterTimer")
  /\ IF currentSession = 0
       THEN /\ Finish(i)
            /\ UNCHANGED sessionObjects
       ELSE /\ sessionObjects' = [sessionObjects EXCEPT
                 ![currentSession].lastTimerAlertTime = now]
            /\ Continue(i, [tasks[i] EXCEPT !.pc = "upd_updateSession"])
  /\ UNCHANGED <<browserVars, now, monitorVars, currentSession, snoozedUntil,
                 storageVars, outputVars>>

\* updateSession 65
UpdUpdateSession(i) ==
  /\ Step
  /\ At(i, "upd_updateSession")
  /\ Continue(i, [tasks[i] EXCEPT !.pc = "upd_getSessions",
                                  !.sess = currentSession])
  /\ UNCHANGED <<browserVars, now, monitorVars, detectorVars, snoozedUntil,
                 storageVars, outputVars>>

\* StorageService.updateSession
UpdGetSessions(i) ==
  /\ Step
  /\ At(i, "upd_getSessions")
  /\ LET t == tasks[i]
         k == IF t.sess = 0 THEN 0 ELSE findIndex(storedSessions, t.sess)
     IN  IF k # 0
           THEN /\ storedSessions' =
                     [storedSessions EXCEPT ![k] = sessionObjects[t.sess]]
                /\ Continue(i, [t EXCEPT !.pc = "upd_setSessions"])
           ELSE /\ UNCHANGED storedSessions
                /\ Finish(i)
  /\ UNCHANGED <<browserVars, now, monitorVars, detectorVars, snoozedUntil,
                 settings, monitoringEnabled, dailyStats, outputVars>>

UpdSetSessions(i) ==
  /\ Step
  /\ At(i, "upd_setSessions")
  /\ Finish(i)
  /\ UNCHANGED <<browserVars, now, monitorVars, detectorVars, snoozedUntil,
                 storageVars, outputVars>>


(***************************************************************************)
(* Window focus and idle state (service-worker.ts 130-163,                 *)
(* usage-monitor.ts 153-182).  onUserIdle, onBrowserBlurred and disable    *)
(* call endCurrentSession without awaiting it: the handler is over when    *)
(* the call reaches its first await, and the rest runs as a task.          *)
(***************************************************************************)
WindowBlurred ==
  /\ Event
  /\ CanSpawn(1)
  /\ isBrowserFocused
  /\ isBrowserFocused' = FALSE
  /\ Spawn(Task("endCurrentSession", NoUrl, 0, "done"))
  /\ UNCHANGED <<browserVars, now, currentTabId, currentUrl, sessionStartTime,
                 isUserActive, isEnabled, trackedSites, loading, detectorVars,
                 snoozedUntil, storageVars, outputVars>>

WindowFocused ==
  /\ Event
  /\ CanSpawn(1)
  /\ ~isBrowserFocused
  /\ isBrowserFocused' = TRUE
  /\ Spawn(Task("focus_query", NoUrl, 0, "done"))
  /\ UNCHANGED <<browserVars, now, currentTabId, currentUrl, sessionStartTime,
                 isUserActive, isEnabled, trackedSites, loading, detectorVars,
                 snoozedUntil, storageVars, outputVars>>

\* service-worker.ts 140-143
FocusQuery(i) ==
  /\ Step
  /\ At(i, "focus_query")
  /\ IF activeTab = 0 \/ StartsWith(tabs[activeTab], "chrome://")
       THEN Finish(i)
       ELSE Continue(i, [tasks[i] EXCEPT !.pc = "onTabActivated",
                                         !.url = tabs[activeTab],
                                         !.tab = activeTab])
  /\ UNCHANGED <<browserVars, now, monitorVars, detectorVars, snoozedUntil,
                 storageVars, outputVars>>

UserIdle ==
  /\ Event
  /\ CanSpawn(1)
  /\ isUserActive
  /\ isUserActive' = FALSE
  /\ Spawn(Task("endCurrentSession", NoUrl, 0, "done"))
  /\ UNCHANGED <<browserVars, now, currentTabId, currentUrl, sessionStartTime,
                 isBrowserFocused, isEnabled, trackedSites, loading,
                 detectorVars, snoozedUntil, storageVars, outputVars>>

UserActive ==
  /\ Event
  /\ Idle
  /\ ~isUserActive
  /\ isUserActive' = TRUE
  /\ UNCHANGED <<browserVars, now, currentTabId, currentUrl, sessionStartTime,
                 isBrowserFocused, isEnabled, trackedSites, loading,
                 detectorVars, snoozedUntil, storageVars, outputVars, tasks,
                 running>>

(***************************************************************************)
(* The monitoring toggle of the popup (Popup.tsx 33-41) and its messages   *)
(* (service-worker.ts 305-315).                                            *)
(***************************************************************************)
StopMonitoring ==
  /\ Receive
  /\ CanSpawn(1)
  /\ monitoringEnabled
  /\ monitoringEnabled' = FALSE
  /\ messages' = Append(messages, Message("STOP_MONITORING", 0, <<>>, TRUE))
  /\ Spawn([Task("stop_set", NoUrl, 0, "done") EXCEPT
              !.msg = Len(messages) + 1])
  /\ UNCHANGED <<browserVars, now, monitorVars, detectorVars, snoozedUntil,
                 settings, dailyStats, storedSessions, outputVars>>

\* usageMonitor.disable(), and the response
StopSet(i) ==
  /\ Handling
  /\ UNCHANGED syncVars
  /\ At(i, "stop_set")
  /\ isEnabled' = FALSE
  /\ Respond(tasks[i].msg, Success(0), TRUE)
  /\ Continue(i, [tasks[i] EXCEPT !.pc = "endCurrentSession", !.msg = 0])
  /\ UNCHANGED <<browserVars, now, currentTabId, currentUrl, sessionStartTime,
                 isUserActive, isBrowserFocused, trackedSites, loading,
                 detectorVars, snoozedUntil, storageVars, outputVars>>

StartMonitoring ==
  /\ Receive
  /\ CanSpawn(1)
  /\ ~monitoringEnabled
  /\ monitoringEnabled' = TRUE
  /\ messages' = Append(messages, Message("START_MONITORING", 0, <<>>, TRUE))
  /\ Spawn([Task("start_set", NoUrl, 0, "done") EXCEPT
              !.msg = Len(messages) + 1])
  /\ UNCHANGED <<browserVars, now, monitorVars, detectorVars, snoozedUntil,
                 settings, dailyStats, storedSessions, outputVars>>

\* usageMonitor.enable(), and the response
StartSet(i) ==
  /\ Handling
  /\ UNCHANGED syncVars
  /\ At(i, "start_set")
  /\ isEnabled' = TRUE
  /\ Respond(tasks[i].msg, Success(0), TRUE)
  /\ Finish(i)
  /\ UNCHANGED <<browserVars, now, currentTabId, currentUrl, sessionStartTime,
                 isUserActive, isBrowserFocused, trackedSites, loading,
                 detectorVars, snoozedUntil, storageVars, outputVars>>

(***************************************************************************)
(* InterventionScheduler (intervention-scheduler.ts 8-33) and its callers: *)
(* the messages of the overlay (service-worker.ts 283-289) and the context *)
(* menu (341-351).                                                         *)
(***************************************************************************)
isSnoozed == snoozedUntil # 0 /\ now < snoozedUntil

\* InterventionScheduler.snooze
snooze(durationMinutes) == snoozedUntil' = now + durationMinutes

\* The durations a SNOOZE_INTERVENTIONS message carries: the overlay sends
\* 30; the handler takes any.
SnoozeDurations == {1, 30}

SnoozeInterventions(duration) ==
  /\ Receive
  /\ Idle
  /\ snooze(duration)
  /\ messages' = Append(messages, Message("SNOOZE_INTERVENTIONS", duration,
                                          <<Success(0)>>, TRUE))
  /\ UNCHANGED <<browserVars, now, monitorVars, detectorVars, storageVars,
                 outputVars, tasks, running>>

ClearSnooze ==
  /\ Receive
  /\ Idle
  /\ snoozedUntil # 0
  /\ snoozedUntil' = 0
  /\ messages' = Append(messages, Message("CLEAR_SNOOZE", 0, <<Success(0)>>,
                                          TRUE))
  /\ UNCHANGED <<browserVars, now, monitorVars, detectorVars, storageVars,
                 outputVars, tasks, running>>

\* The user clicks 'Snooze ThinkFast for 30 minutes' in the context menu.
ContextMenuSnooze ==
  /\ Event
  /\ Idle
  /\ snooze(30)
  /\ notifications' = Append(notifications, "ThinkFast Snoozed")
  /\ UNCHANGED <<browserVars, now, monitorVars, detectorVars, storageVars,
                 sent, tasks, running>>

(***************************************************************************)
(* The notification alarms (service-worker.ts 206-253) and the            *)
(* notifications switch of the settings page (Settings.tsx 30-36, 142),    *)
(* which saves the settings and has the background reload them.            *)
(***************************************************************************)
MorningAlarm ==
  /\ Event
  /\ CanSpawn(1)
  /\ Spawn(Task("morning_getSettings", NoUrl, 0, "done"))
  /\ UNCHANGED <<browserVars, now, monitorVars, detectorVars, snoozedUntil,
                 storageVars, outputVars>>

\* sendMorningNotification 229-237
MorningGetSettings(i) ==
  /\ Step
  /\ At(i, "morning_getSettings")
  /\ notifications' = IF settings.notificationsEnabled
                        THEN Append(notifications, "Good Morning!")
                        ELSE notifications
  /\ Finish(i)
  /\ UNCHANGED <<browserVars, now, monitorVars, detectorVars, snoozedUntil,
                 storageVars, sent>>

EveningAlarm ==
  /\ Event
  /\ CanSpawn(1)
  /\ Spawn(Task("evening_getSettings", NoUrl, 0, "done"))
  /\ UNCHANGED <<browserVars, now, monitorVars, detectorVars, snoozedUntil,
                 storageVars, outputVars>>

\* sendEveningNotification 241-245
EveningGetSettings(i) ==
  /\ Step
  /\ At(i, "evening_getSettings")
  /\ IF settings.notificationsEnabled
       THEN Continue(i, [tasks[i] EXCEPT !.pc = "evening_getDailyStats"])
       ELSE Finish(i)
  /\ UNCHANGED <<browserVars, now, monitorVars, detectorVars, snoozedUntil,
                 storageVars, outputVars>>

\* sendEveningNotification 247-252
EveningGetDailyStats(i) ==
  /\ Step
  /\ At(i, "evening_getDailyStats")
  /\ notifications' = Append(notifications, "Daily Summary")
  /\ Finish(i)
  /\ UNCHANGED <<browserVars, now, monitorVars, detectorVars, snoozedUntil,
                 storageVars, sent>>

\* The user switches the notifications on or off: handleSaveSetting saves
\* the settings and sends RELOAD_SETTINGS, on which the background reloads
\* its tracked sites.
SaveNotificationsEnabled(checked) ==
  /\ Event
  /\ Idle
  /\ settings.notificationsEnabled # checked
  /\ settings' = [settings EXCEPT !.notificationsEnabled = checked]
  /\ loading' = loading \cup {"trackedSites"}
  /\ UNCHANGED <<browserVars, now, currentTabId, currentUrl, sessionStartTime,
                 isUserActive, isBrowserFocused, isEnabled, trackedSites,
                 detectorVars, snoozedUntil, monitoringEnabled, dailyStats,
                 storedSessions, outputVars, tasks, running>>

(***************************************************************************)
(* The loads the UsageMonitor constructor started (usage-monitor.ts 21-41).*)
(***************************************************************************)
loadTrackedSites ==
  /\ UNCHANGED <<events, syncVars, engineVars, workerSession, messages,
                 lastCheck, overlay, overlayResults>>
  /\ reloaded' = TRUE
  /\ Idle
  /\ "trackedSites" \in loading
  /\ trackedSites' = settings.trackedSites
  /\ loading' = loading \ {"trackedSites"}
  /\ UNCHANGED <<browserVars, now, currentTabId, currentUrl, sessionStartTime,
                 isUserActive, isBrowserFocused, isEnabled, detectorVars,
                 snoozedUntil, storageVars, outputVars, tasks, running>>

loadMonitoringState ==
  /\ Step
  /\ Idle
  /\ "monitoringState" \in loading
  /\ isEnabled' = (monitoringEnabled # FALSE)
  /\ loading' = loading \ {"monitoringState"}
  /\ UNCHANGED <<browserVars, now, currentTabId, currentUrl, sessionStartTime,
                 isUserActive, isBrowserFocused, trackedSites, detectorVars,
                 snoozedUntil, storageVars, outputVars, tasks, running>>

\* A minute passes.
Tick ==
  /\ Step
  /\ Idle
  /\ now < MaxTime
  /\ now' = now + 1
  /\ UNCHANGED <<browserVars, monitorVars, detectorVars, snoozedUntil,
                 storageVars, outputVars, tasks, running>>

(***************************************************************************)
(* The steps of the handlers in flight, by the code they run.              *)
(***************************************************************************)
SessionSteps(i) ==
  \/ OnTabActivated(i) \/ Activate(i) \/ StartSession(i)
  \/ StartGetSettings(i) \/ StartGetSessions(i) \/ StartSetSessions(i)

TabSteps(i) == TabsGet(i) \/ SessionSteps(i)

EndSteps(i) ==
  \/ EndCurrentSession(i) \/ EndCurrentSessionAfter(i)
  \/ EndSession(i) \/ EndGetSessions(i) \/ EndSetSessions(i)
  \/ EndUpdateDailyStats(i) \/ EndGetDailyStats(i) \/ EndSaveDailyStats(i)

ShowSteps(i) ==
  \/ ShowOverlay(i) \/ ShowQuery(i) \/ ShowGetDailyStats(i)
  \/ ShowGetGoals(i) \/ ShowSendMessage(i)

UpdSteps(i) ==
  \/ UpdGetSettings(i) \/ UpdAfterTimer(i) \/ UpdUpdateSession(i)
  \/ UpdGetSessions(i) \/ UpdSetSessions(i)

TabEvents ==
  \/ \E t \in TabIds : UserActivatesTab(t)
  \/ \E u \in Urls : UserNavigates(u)
  \/ \E t \in TabIds : UserClosesTab(t)

AwayEvents == WindowBlurred \/ WindowFocused \/ UserIdle \/ UserActive

ToggleEvents == StopMonitoring \/ StartMonitoring

ToggleSteps(i) == StopSet(i) \/ StartSet(i)

Loads == loadTrackedSites \/ loadMonitoringState

(***************************************************************************)
(* Spec: the tracker under the events of the tabs, the window, the idle    *)
(* detector, the checkUsage alarm and the monitoring toggle.               *)
(***************************************************************************)
Next ==
  \/ \E i \in 1..MaxTasks :
       \/ TabSteps(i) \/ EndSteps(i) \/ ShowSteps(i) \/ UpdSteps(i)
       \/ FocusQuery(i) \/ ToggleSteps(i)
  \/ TabEvents
  \/ AwayEvents
  \/ ToggleEvents
  \/ CheckUsageAlarm
  \/ Loads
  \/ Tick

Spec == Init /\ [][Next]_vars

(***************************************************************************)
(* SpecSnooze: the tracker of one tab under navigation and the checkUsage  *)
(* alarm, with the snooze, the notification alarms and the notifications   *)
(* switch.                                                                 *)
(***************************************************************************)
SnoozeEvents ==
  \/ \E d \in SnoozeDurations : SnoozeInterventions(d)
  \/ ClearSnooze
  \/ ContextMenuSnooze

NotifyEvents ==
  \/ MorningAlarm \/ EveningAlarm
  \/ \E b \in BOOLEAN : SaveNotificationsEnabled(b)

NotifySteps(i) ==
  MorningGetSettings(i) \/ EveningGetSettings(i) \/ EveningGetDailyStats(i)

NextSnooze ==
  \/ \E i \in 1..MaxTasks :
       \/ SessionSteps(i) \/ EndSteps(i) \/ ShowSteps(i) \/ UpdSteps(i)
       \/ NotifySteps(i)
  \/ \E u \in Urls : UserNavigates(u)
  \/ CheckUsageAlarm
  \/ SnoozeEvents
  \/ NotifyEvents
  \/ Loads
  \/ Tick

SpecSnooze == Init /\ [][NextSnooze]_vars

(***************************************************************************)
(* Properties of the tracker.                                              *)
(***************************************************************************)

\* Every handler that was started has run to its end.
Processed == tasks = <<>>

\* The user is away, as UsageMonitor knows it.
Away == ~isUserActive \/ ~isBrowserFocused

\* A step in which SessionDetector opens a session.
SessionStarts == currentSession' # 0 /\ currentSession' # currentSession

\* C1: once every tab event has been processed, a session that is open is
\* a session of the URL the active tab shows: no session remains open for
\* a URL the user has left.
C1_SessionBoundedByTabChanges ==
  (Processed /\ currentSession # 0) =>
     /\ activeTab # 0
     /\ sessionObjects[currentSession].url = tabs[activeTab]

\* C2: while the user is away (idle, or the browser unfocused) no step
\* opens a session.
C2_NoSessionStartsWhileAway ==
  [][Away => ~SessionStarts]_vars

\* STOP_MONITORING has been handled, START_MONITORING not yet.
StopHandled ==
  /\ ~isEnabled
  /\ \A i \in DOMAIN tasks : tasks[i].pc # "stop_set"

\* C3: from the handling of STOP_MONITORING until START_MONITORING is
\* handled no step opens a session.
C3_NoSessionStartsWhileStopped ==
  [][StopHandled => ~SessionStarts]_vars

\* C4: the last SHOW_INTERVENTION was delivered to a tab showing, at
\* delivery, a URL of the tracked site of the session it carries.
C4_OverlayOnTrackedSiteOnly ==
  sent # NoMessage =>
    LET site == matchTrackedSite(settings.trackedSites, sent.tabUrl)
    IN  /\ site # NoSite
        /\ sent.session # 0 =>
             site.name = sessionObjects[sent.session].siteName

\* The host of a URL or of a pattern: what lies between "://" and the next
\* "/" (URL.hostname).
hostname(s) ==
  LET cs == Chars(s)
      from == CHOOSE i \in 1..Len(cs) :
                /\ SubSeq(cs, i, i + 2) = <<":", "/", "/">>
                /\ \A j \in 1..(i - 1) : SubSeq(cs, j, j + 2) # <<":", "/", "/">>
      rest == SubSeq(cs, from + 3, Len(cs))
      stop == IF \E i \in 1..Len(rest) : rest[i] = "/"
                THEN CHOOSE i \in 1..Len(rest) :
                       /\ rest[i] = "/"
                       /\ \A j \in 1..(i - 1) : rest[j] # "/"
                ELSE Len(rest) + 1
  IN  SubSeq(rest, 1, stop - 1)

\* The host a pattern names: its host without the leading "*.".
namedHost(pattern) ==
  LET h == hostname(pattern)
  IN  IF Len(h) >= 2 /\ SubSeq(h, 1, 2) = <<"*", ".">>
        THEN SubSeq(h, 3, Len(h)) ELSE h

\* The URL is on the host the pattern names, or on a subdomain of it.
onNamedHost(pattern, url) ==
  LET h == hostname(url)
      n == namedHost(pattern)
  IN  \/ h = n
      \/ /\ Len(h) > Len(n)
         /\ SubSeq(h, Len(h) - Len(n), Len(h)) = <<".">> \o n

\* C5: every session was started for a URL on the host, or on a subdomain
\* of the host, that a tracked-site pattern of the settings names.
C5_SessionsOnConfiguredHostsOnly ==
  \A k \in DOMAIN sessionObjects :
    \E j \in DOMAIN settings.trackedSites :
      onNamedHost(settings.trackedSites[j].pattern, sessionObjects[k].url)

\* C6: while the interventions are snoozed no SHOW_INTERVENTION is sent.
C6_NoInterventionWhileSnoozed ==
  [][(isSnoozed /\ isSnoozed') => sent' = sent]_vars

\* C9: while the notifications are disabled in the settings no
\* notification is created.
C9_NoNotificationWhileDisabled ==
  [][~settings.notificationsEnabled => notifications' = notifications]_vars

(***************************************************************************)
(* Cloud sync: SupabaseService (supabase.ts 159-372), syncToCloud          *)
(* (service-worker.ts 167-204) and the account page (AccountManager).      *)
(* A push or pull in flight is a record of `jobs`: the operation it is to  *)
(* do next and the data it holds.  Every operation is a request to the     *)
(* cloud or to chrome.storage, so the jobs interleave at every step.       *)
(* What the cloud does with a write sent without a session is not in the   *)
(* repository: it may store it or reject it.                               *)
(***************************************************************************)
MaxJobs == 2

GoalA == [id |-> "a", dailyLimitMinutes |-> 30]
GoalAEdited == [id |-> "a", dailyLimitMinutes |-> 60]
GoalB == [id |-> "b", dailyLimitMinutes |-> 30]

\* The lists of goals the user may have on this device or in the cloud.
GoalLists == {<<>>, <<GoalA>>, <<GoalAEdited>>, <<GoalB>>}

\* The settings saved from another device.
SettingsElsewhere ==
  [getDefaultSettings EXCEPT !.trackedSites = <<SiteFb>>,
                             !.timerDurationMinutes = 5]

Job(pc) == [pc |-> pc, settings |-> NoSettings, goals |-> <<>>,
            results |-> <<>>]

JobAt(i, pc) == i \in DOMAIN jobs /\ jobs[i].pc = pc

Goto(i, pc) == jobs' = [jobs EXCEPT ![i].pc = pc]

\* An event of the account page or the syncData alarm, within the bound.
SyncEvent(job) ==
  /\ events < MaxEvents
  /\ events' = events + 1
  /\ Len(jobs) < MaxJobs
  /\ jobs' = Append(jobs, job)

\* A write request reaches the cloud.
CloudWrite(table) ==
  writes' = Append(writes, [table |-> table, user |-> authUser])

\* What a table holds after a write of `new` over `old`.
Stored(old, new) == IF authUser # 0 THEN {new} ELSE {old, new}

trackerVars == <<tabs, activeTab, now, currentTabId, currentUrl,
                 sessionStartTime, isUserActive, isBrowserFocused, isEnabled,
                 trackedSites, currentSession, sessionObjects, snoozedUntil,
                 monitoringEnabled, dailyStats, storedSessions, sent,
                 notifications, tasks, running>>
localVars == <<settings, loading, goals, interventionResults>>
cloudVars == <<cloudSettings, cloudGoals, cloudResults, writes>>

\* The syncData alarm: syncToCloud, awaiting isAuthenticated.
SyncAlarm ==
  /\ SyncEvent(Job("push_isAuthenticated"))
  /\ UNCHANGED <<trackerVars, engineVars, pageVars, localVars, cloudVars, authUser>>

\* 'Sync Now' of the account page (handleSync), shown to a signed-in user.
HandleSync ==
  /\ authUser # 0
  /\ SyncEvent(Job("push_getLocal"))
  /\ UNCHANGED <<trackerVars, engineVars, pageVars, localVars, cloudVars, authUser>>

\* 'Sign in with Google' (handleSignIn): once signed in the page reads the
\* user and pushes the local data (handleSyncAfterSignIn).
SignIn ==
  /\ authUser = 0
  /\ authUser' = 1
  /\ SyncEvent(Job("signIn_getUser"))
  /\ UNCHANGED <<trackerVars, engineVars, pageVars, localVars, cloudVars>>

\* 'Sign out' (handleSignOut, SupabaseService.signOut)
SignOut ==
  /\ authUser # 0
  /\ authUser' = 0
  /\ events < MaxEvents
  /\ events' = events + 1
  /\ UNCHANGED <<trackerVars, engineVars, pageVars, localVars, cloudVars, jobs>>

\* 'Pull from Cloud' (handlePullFromCloud), shown to a signed-in user.
PullFromCloud ==
  /\ authUser # 0
  /\ SyncEvent(Job("pull_getUser"))
  /\ UNCHANGED <<trackerVars, engineVars, pageVars, localVars, cloudVars, authUser>>

\* handleSignIn 54-60
SignInGetUser(i) ==
  /\ JobAt(i, "signIn_getUser")
  /\ IF authUser # 0 THEN Goto(i, "push_getLocal") ELSE jobs' = Remove(jobs, i)
  /\ UNCHANGED <<trackerVars, engineVars, pageVars, localVars, cloudVars, authUser, events>>

\* syncToCloud 171-175
PushIsAuthenticated(i) ==
  /\ JobAt(i, "push_isAuthenticated")
  /\ IF authUser # 0 THEN Goto(i, "push_getLocal") ELSE jobs' = Remove(jobs, i)
  /\ UNCHANGED <<trackerVars, engineVars, pageVars, localVars, cloudVars, authUser, events>>

\* syncToCloud 181-183, handleSync 126-128: the local data are read.
PushGetLocal(i) ==
  /\ JobAt(i, "push_getLocal")
  /\ jobs' = [jobs EXCEPT ![i] = [pc |-> "push_getUser",
                                   settings |-> settings, goals |-> goals,
                                   results |-> interventionResults]]
  /\ UNCHANGED <<trackerVars, engineVars, pageVars, localVars, cloudVars, authUser, events>>

\* fullSyncPush 343-344
PushGetUser(i) ==
  /\ JobAt(i, "push_getUser")
  /\ Goto(i, IF authUser # 0 THEN "push_settings" ELSE "updateLastSync")
  /\ UNCHANGED <<trackerVars, engineVars, pageVars, localVars, cloudVars, authUser, events>>

\* syncSettings 189-199: getUser, then the upsert.
PushSettings(i) ==
  /\ JobAt(i, "push_settings")
  /\ IF authUser # 0
       THEN /\ CloudWrite("user_settings")
            /\ cloudSettings' = jobs[i].settings
       ELSE UNCHANGED <<writes, cloudSettings>>
  /\ Goto(i, "push_goals")
  /\ UNCHANGED <<trackerVars, engineVars, pageVars, localVars, cloudGoals, cloudResults, authUser,
                 events>>

\* syncGoals 227-233: getUser, then the delete of the user's goals.
PushGoals(i) ==
  /\ JobAt(i, "push_goals")
  /\ IF authUser # 0
       THEN /\ CloudWrite("goals")
            /\ cloudGoals' = <<>>
            /\ Goto(i, "push_goals_insert")
       ELSE /\ UNCHANGED <<writes, cloudGoals>>
            /\ Goto(i, "push_result")
  /\ UNCHANGED <<trackerVars, engineVars, pageVars, localVars, cloudSettings, cloudResults,
                 authUser, events>>

\* syncGoals 235-244: the delete has returned; the goals are inserted for
\* the user read at 227.
PushGoalsInsert(i) ==
  /\ JobAt(i, "push_goals_insert")
  /\ IF jobs[i].goals # <<>>
       THEN /\ CloudWrite("goals")
            /\ cloudGoals' \in Stored(cloudGoals, jobs[i].goals)
       ELSE UNCHANGED <<writes, cloudGoals>>
  /\ Goto(i, "push_result")
  /\ UNCHANGED <<trackerVars, engineVars, pageVars, localVars, cloudSettings, cloudResults,
                 authUser, events>>

\* fullSyncPush 350-352 and syncInterventionResult 265-273: the next
\* result, getUser, then the insert.
PushResult(i) ==
  /\ JobAt(i, "push_result")
  /\ IF jobs[i].results = <<>>
       THEN /\ Goto(i, "updateLastSync")
            /\ UNCHANGED <<writes, cloudResults>>
       ELSE /\ jobs' = [jobs EXCEPT ![i].results = Tail(@)]
            /\ IF authUser # 0
                 THEN /\ CloudWrite("intervention_results")
                      /\ cloudResults' =
                           Append(cloudResults, Head(jobs[i].results))
                 ELSE UNCHANGED <<writes, cloudResults>>
  /\ UNCHANGED <<trackerVars, engineVars, pageVars, localVars, cloudSettings, cloudGoals, authUser,
                 events>>

\* fullSyncPull 363-366
PullGetUser(i) ==
  /\ JobAt(i, "pull_getUser")
  /\ Goto(i, IF authUser # 0 THEN "pull_select" ELSE "pull_saveSettings")
  /\ UNCHANGED <<trackerVars, engineVars, pageVars, localVars, cloudVars, authUser, events>>

\* fullSyncPull 368-372: pullSettings and pullGoals, each for the user it
\* reads (the rows are read together).
PullSelect(i) ==
  /\ JobAt(i, "pull_select")
  /\ jobs' = [jobs EXCEPT ![i] =
       [pc |-> "pull_saveSettings",
        settings |-> IF authUser # 0 THEN cloudSettings ELSE NoSettings,
        goals |-> IF authUser # 0 THEN cloudGoals ELSE <<>>,
        results |-> <<>>]]
  /\ UNCHANGED <<trackerVars, engineVars, pageVars, localVars, cloudVars, authUser, events>>

\* handlePullFromCloud 176-179
PullSaveSettings(i) ==
  /\ JobAt(i, "pull_saveSettings")
  /\ settings' = IF jobs[i].settings # NoSettings THEN jobs[i].settings
                 ELSE settings
  /\ Goto(i, IF jobs[i].goals # <<>> THEN "pull_saveGoal"
             ELSE "pull_updateLastSync")
  /\ UNCHANGED <<trackerVars, engineVars, pageVars, loading, goals, interventionResults, cloudVars,
                 authUser, events>>

\* StorageService.saveGoal: the goal replaces the one of its id, or is
\* added.
saveGoal(list, goal) ==
  LET index == findIndex(list, goal.id)
  IN  IF index # 0 THEN [list EXCEPT ![index] = goal] ELSE Append(list, goal)

\* handlePullFromCloud 181-186: the next goal of the cloud is saved.
PullSaveGoal(i) ==
  /\ JobAt(i, "pull_saveGoal")
  /\ goals' = saveGoal(goals, Head(jobs[i].goals))
  /\ jobs' = [jobs EXCEPT ![i].goals = Tail(@),
                          ![i].pc = IF Tail(jobs[i].goals) # <<>>
                                      THEN "pull_saveGoal"
                                      ELSE "pull_updateLastSync"]
  /\ UNCHANGED <<trackerVars, engineVars, pageVars, settings, loading, interventionResults,
                 cloudVars, authUser, events>>

\* handlePullFromCloud 189-199: the pull succeeded, and the background is
\* told to reload the settings.
PullUpdateLastSync(i) ==
  /\ JobAt(i, "pull_updateLastSync")
  /\ jobs' = Remove(jobs, i)
  /\ loading' = loading \cup {"trackedSites"}
  /\ UNCHANGED <<trackerVars, engineVars, pageVars, settings, goals, interventionResults,
                 cloudVars, authUser, events>>

\* syncToCloud 192, handleSync 138: StorageService.updateLastSync
UpdateLastSync(i) ==
  /\ JobAt(i, "updateLastSync")
  /\ jobs' = Remove(jobs, i)
  /\ UNCHANGED <<trackerVars, engineVars, pageVars, localVars, cloudVars, authUser, events>>

PushSteps(i) ==
  \/ SignInGetUser(i) \/ PushIsAuthenticated(i) \/ PushGetLocal(i)
  \/ PushGetUser(i) \/ PushSettings(i) \/ PushGoals(i)
  \/ PushGoalsInsert(i) \/ PushResult(i) \/ UpdateLastSync(i)

PullSteps(i) ==
  \/ PullGetUser(i) \/ PullSelect(i) \/ PullSaveSettings(i)
  \/ PullSaveGoal(i) \/ PullUpdateLastSync(i)

SyncEvents == SyncAlarm \/ HandleSync \/ SignIn \/ SignOut \/ PullFromCloud

(***************************************************************************)
(* SpecSync: pushes, pulls, sign-in and sign-out, from any local and cloud *)
(* data of the bounds.                                                     *)
(***************************************************************************)
InitSync ==
  /\ tabs = [t \in TabIds |-> UrlOther]
  /\ activeTab = 1
  /\ now = 1
  /\ currentTabId = 0
  /\ currentUrl = NoUrl
  /\ sessionStartTime = 0
  /\ isUserActive = TRUE
  /\ isBrowserFocused = TRUE
  /\ isEnabled = TRUE
  /\ trackedSites = <<SiteFb>>
  /\ loading = {}
  /\ currentSession = 0
  /\ sessionObjects = <<>>
  /\ snoozedUntil = 0
  /\ settings = [getDefaultSettings EXCEPT !.trackedSites = <<SiteFb>>]
  /\ monitoringEnabled = TRUE
  /\ dailyStats = createEmptyStats
  /\ storedSessions = <<>>
  /\ sent = NoMessage
  /\ notifications = <<>>
  /\ tasks = <<>>
  /\ running = 0
  /\ events = 0
  /\ authUser \in {0, 1}
  /\ goals \in GoalLists
  /\ interventionResults = <<"r1">>
  /\ cloudSettings \in {NoSettings, SettingsElsewhere}
  /\ cloudGoals \in GoalLists
  /\ cloudResults = <<>>
  /\ writes = <<>>
  /\ jobs = <<>>
  /\ lastShownContent = <<>>
  /\ first = <<>>
  /\ selected = <<>>
  /\ selections = 0
  /\ workerSession = 0
  /\ messages = <<>>
  /\ reloaded = FALSE
  /\ lastCheck = 0
  /\ overlay = NoOverlay
  /\ overlayResults = <<>>

NextSync ==
  \/ \E i \in 1..MaxJobs : PushSteps(i) \/ PullSteps(i)
  \/ SyncEvents
  \/ loadTrackedSites

SpecSync == InitSync /\ [][NextSync]_vars

\* C7: every write request was sent to the cloud while a user was signed
\* in.
C7_CloudWritesOnlyWhileSignedIn ==
  \A k \in DOMAIN writes : writes[k].user # 0

\* The pull of a signed-in user completes.
PullCompletes ==
  /\ authUser # 0
  /\ \E i \in DOMAIN jobs :
       jobs[i].pc = "pull_updateLastSync" /\ jobs' = Remove(jobs, i)

Range(list) == {list[k] : k \in DOMAIN list}

\* C8: when a pull completes, the local goals are exactly the goals of the
\* cloud, and the local settings are the settings of the cloud if it holds
\* any.
C8_PullReplacesLocalData ==
  [][PullCompletes =>
       /\ Range(goals') = Range(cloudGoals')
       /\ cloudSettings' # NoSettings => settings' = cloudSettings']_vars

(***************************************************************************)
(* InterventionEngine (intervention-engine.ts): the content selection of  *)
(* the overlay.                                                            *)
(***************************************************************************)
MaxSelections == 2
MAX_HISTORY == 10

\* Math.random() takes the values q / RandomSteps.
RandomSteps == 4

\* The content types, in the order of the keys of baseWeights.
ContentTypes ==
  <<"REFLECTION", "TIME_ALTERNATIVE", "BREATHING", "STATS", "QUOTE",
    "ACTIVITY", "EMOTIONAL", "GAMIFICATION">>

InterventionTypes == {"REMINDER", "TIMER"}

\* The contexts of the model: an afternoon of a working day, and the same
\* with each condition of calculateWeights in turn, and with all of them.
PlainContext ==
  [timeOfDay |-> 14, isWeekend |-> FALSE, totalUsageToday |-> 20,
   sessionCount |-> 1, quickReopenAttempt |-> FALSE, streakDays |-> 0,
   isOverGoal |-> FALSE]

Contexts ==
  {PlainContext,
   [PlainContext EXCEPT !.timeOfDay = 23],
   [PlainContext EXCEPT !.timeOfDay = 8, !.isWeekend = TRUE],
   [PlainContext EXCEPT !.quickReopenAttempt = TRUE],
   [PlainContext EXCEPT !.isOverGoal = TRUE],
   [PlainContext EXCEPT !.streakDays = 7],
   [PlainContext EXCEPT !.timeOfDay = 23, !.quickReopenAttempt = TRUE,
                        !.isOverGoal = TRUE, !.streakDays = 7]}

\* utils/content-pools.ts: the ids of the items of each pool.
ContentPools ==
  [t \in {"REFLECTION", "TIME_ALTERNATIVE", "BREATHING", "QUOTE", "ACTIVITY"}
     |-> IF t = "REFLECTION" THEN {"reflection_1", "reflection_2"}
         ELSE IF t = "TIME_ALTERNATIVE" THEN {"alternative_1"}
         ELSE IF t = "BREATHING" THEN {"breathing_1"}
         ELSE IF t = "QUOTE" THEN {"quote_1"}
         ELSE {"activity_1"}]

\* Weights that learn from what was shown: every type gains with the
\* length of the history.
adaptiveWeights(type, context) ==
  [t \in Range(ContentTypes) |-> 10 + Len(lastShownContent)]

calculateWeights(type, context) ==
  LET baseWeights ==
        [t \in Range(ContentTypes) |->
           CASE t = "REFLECTION" -> 40
             [] t = "TIME_ALTERNATIVE" -> 30
             [] t = "BREATHING" -> 20
             [] t = "STATS" -> 10
             [] t = "QUOTE" -> 5
             [] t = "ACTIVITY" -> 15
             [] t = "EMOTIONAL" -> 0
             [] t = "GAMIFICATION" -> 0]
      isLateNight == context.timeOfDay >= 22 \/ context.timeOfDay <= 5
      isWeekendMorning ==
        context.isWeekend /\ context.timeOfDay >= 6 /\ context.timeOfDay <= 10
      isQuickReopen == context.quickReopenAttempt
      isExtendedSession == type = "TIMER"
      isOverGoal == context.isOverGoal
      hasStreak == context.streakDays >= 7
      w1 == IF isLateNight
              THEN [baseWeights EXCEPT !["ACTIVITY"] = 40, !["BREATHING"] = 30,
                                       !["REFLECTION"] = 20,
                                       !["TIME_ALTERNATIVE"] = 10]
              ELSE baseWeights
      w2 == IF isWeekendMorning
              THEN [w1 EXCEPT !["REFLECTION"] = 35, !["ACTIVITY"] = 35,
                              !["TIME_ALTERNATIVE"] = 20]
              ELSE w1
      w3 == IF isQuickReopen
              THEN [w2 EXCEPT !["REFLECTION"] = 60, !["EMOTIONAL"] = 25,
                              !["QUOTE"] = 10]
              ELSE w2
      w4 == IF isExtendedSession
              THEN [w3 EXCEPT !["TIME_ALTERNATIVE"] = 60, !["STATS"] = 20,
                              !["BREATHING"] = 15]
              ELSE w3
      w5 == IF isOverGoal
              THEN [w4 EXCEPT !["STATS"] = 35, !["REFLECTION"] = 30,
                              !["QUOTE"] = 20]
              ELSE w4
  IN  IF hasStreak
        THEN [w5 EXCEPT !["GAMIFICATION"] = 25, !["STATS"] = 25]
        ELSE w5

RECURSIVE pick(_, _, _)
\* weightedRandom 121-127: the loop over the active weights from entry k.
pick(weights, k, random) ==
  IF k > Len(ContentTypes) THEN "REFLECTION"
  ELSE IF weights[ContentTypes[k]] > 0
         THEN IF random - weights[ContentTypes[k]] <= 0
                THEN ContentTypes[k]
                ELSE pick(weights, k + 1, random - weights[ContentTypes[k]])
         ELSE pick(weights, k + 1, random)

RECURSIVE sum(_, _)
sum(weights, k) ==
  IF k > Len(ContentTypes) THEN 0
  ELSE weights[ContentTypes[k]] + sum(weights, k + 1)

\* weightedRandom, for a value `random` of Math.random() * totalWeight.
weightedRandom(weights, random) ==
  IF \A t \in Range(ContentTypes) : weights[t] = 0 THEN "REFLECTION"
  ELSE pick(weights, 1, random)

\* getContentForType: the ids the content may have.  STATS and
\* GAMIFICATION content is made on the spot; EMOTIONAL draws from the
\* reflections; an item not shown lately is preferred (selectActivity and
\* selectTimeAlternative narrow the choice by attributes of the items).
getContentForType(contentType) ==
  IF contentType = "STATS" THEN {"stats"}
  ELSE IF contentType = "GAMIFICATION" THEN {"gamification"}
  ELSE LET pool == ContentPools[IF contentType = "EMOTIONAL"
                                  THEN "REFLECTION" ELSE contentType]
           available == pool \ Range(lastShownContent)
       IN  IF available # {} THEN available ELSE pool

\* trackShownContent
trackShownContent(id) ==
  LET pushed == Append(lastShownContent, id)
  IN  IF Len(pushed) > MAX_HISTORY THEN Tail(pushed) ELSE pushed

\* InterventionEngine.selectContent
selectContent(type, context) ==
  LET weights == calculateWeights(type, context)
      used == [type |-> type, context |-> context, weights |-> weights]
  IN  /\ selections < MaxSelections
      /\ selections' = selections + 1
      /\ \E q \in 0..(RandomSteps - 1) :
           LET random == (q * sum(weights, 1)) \div RandomSteps
           IN  \E id \in getContentForType(weightedRandom(weights, random)) :
                 lastShownContent' = trackShownContent(id)
      /\ selected' = <<used>>
      /\ first' = IF first = <<>> THEN <<used>> ELSE first
      /\ UNCHANGED <<trackerVars, settings, loading, syncVars, pageVars, events>>

\* InterventionEngine.resetHistory
resetHistory ==
  /\ lastShownContent # <<>>
  /\ lastShownContent' = <<>>
  /\ UNCHANGED <<trackerVars, settings, loading, syncVars, pageVars, events, first,
                 selected, selections>>

(***************************************************************************)
(* SpecEngine: selections of content for any type and context.            *)
(***************************************************************************)
NextEngine ==
  \/ \E type \in InterventionTypes, context \in Contexts :
       selectContent(type, context)
  \/ resetHistory

InitEngine == Init /\ settings.alwaysShowReminder

SpecEngine == InitEngine /\ [][NextEngine]_vars

GoalSite == [id |-> "fb", siteName |-> "Facebook", sitePattern |-> PatternSite,
             dailyLimitMinutes |-> 30]

\* The user adds the website: the goal is saved (StorageService.saveGoal)
\* and the list of the page is refreshed (loadGoals, onSaved).
AddWebsite ==
  /\ events < MaxEvents
  /\ events' = events + 1
  /\ Idle
  /\ findIndex(goals, GoalSite.id) = 0
  /\ goals' = saveGoal(goals, GoalSite)
  /\ reloaded' = FALSE
  /\ UNCHANGED <<trackerVars, settings, loading, authUser, interventionResults,
                 cloudVars, jobs, engineVars, workerSession, messages,
                 lastCheck, overlay, overlayResults>>

\* RELOAD_SETTINGS arrives: reloadTrackedSites awaits the settings.
ReloadSettings ==
  /\ Receive
  /\ CanSpawn(1)
  /\ messages' = Append(messages, Message("RELOAD_SETTINGS", 0, <<>>, FALSE))
  /\ Spawn([Task("reload_getSettings", NoUrl, 0, "done") EXCEPT
              !.msg = Len(messages) + 1])
  /\ UNCHANGED <<browserVars, now, monitorVars, detectorVars, snoozedUntil,
                 storageVars, outputVars>>

\* loadTrackedSites 28-29, and the response
ReloadGetSettings(i) ==
  /\ UNCHANGED <<events, syncVars, engineVars, workerSession, lastCheck,
                 overlay, overlayResults>>
  /\ At(i, "reload_getSettings")
  /\ trackedSites' = settings.trackedSites
  /\ reloaded' = TRUE
  /\ Respond(tasks[i].msg, Success(0), TRUE)
  /\ Finish(i)
  /\ UNCHANGED <<browserVars, now, currentTabId, currentUrl, sessionStartTime,
                 isUserActive, isBrowserFocused, isEnabled, loading,
                 detectorVars, snoozedUntil, storageVars, outputVars>>

\* The state in which the service worker starts, with settings s in
\* chrome.storage and nothing else stored.
Started(s) ==
  /\ tabs = [t \in TabIds |-> UrlOther]
  /\ activeTab = 1
  /\ now = 1
  /\ currentTabId = 0
  /\ currentUrl = NoUrl
  /\ sessionStartTime = 0
  /\ isUserActive = TRUE
  /\ isBrowserFocused = TRUE
  /\ isEnabled = TRUE
  /\ trackedSites = <<>>
  /\ loading = {"trackedSites", "monitoringState"}
  /\ currentSession = 0
  /\ sessionObjects = <<>>
  /\ snoozedUntil = 0
  /\ settings = s
  /\ monitoringEnabled = TRUE
  /\ dailyStats = createEmptyStats
  /\ storedSessions = <<>>
  /\ sent = NoMessage
  /\ notifications = <<>>
  /\ tasks = <<>>
  /\ running = 0
  /\ events = 0
  /\ authUser = 0
  /\ goals = <<>>
  /\ interventionResults = <<>>
  /\ cloudSettings = NoSettings
  /\ cloudGoals = <<>>
  /\ cloudResults = <<>>
  /\ writes = <<>>
  /\ jobs = <<>>
  /\ lastShownContent = <<>>
  /\ first = <<>>
  /\ selected = <<>>
  /\ selections = 0
  /\ workerSession = 0
  /\ messages = <<>>
  /\ reloaded = FALSE
  /\ lastCheck = 0
  /\ overlay = NoOverlay
  /\ overlayResults = <<>>

(***************************************************************************)
(* SpecSites: the website manager, the reload of the settings and          *)
(* navigation, from a new installation (no tracked site in the settings)   *)
(* or from settings that track the site already (saved on another device   *)
(* and pulled).                                                            *)
(***************************************************************************)
InitSites ==
  \E s \in {getDefaultSettings,
             [getDefaultSettings EXCEPT !.trackedSites = <<SiteFb>>]} :
    Started(s)

NextSites ==
  \/ \E i \in 1..MaxTasks :
       \/ SessionSteps(i) \/ EndSteps(i) \/ ShowSteps(i)
       \/ ReloadGetSettings(i)
  \/ \E u \in Urls : UserNavigates(u)
  \/ AddWebsite
  \/ ReloadSettings
  \/ Loads
  \/ Tick

SpecSites == InitSites /\ [][NextSites]_vars

\* The goals name a pattern that matches the URL.
GoalMatches(url) ==
  \E g \in DOMAIN goals : matchPattern(goals[g].sitePattern, url)

\* C11: once a website has been added (its goal saved) and the background
\* has loaded its settings since, an activation on a URL matching the
\* pattern of the goal goes on to start a session.
C11_AddedWebsiteIsTracked ==
  [][\A i \in DOMAIN tasks :
       (/\ tasks[i].pc = "activate"
        /\ running = i
        /\ reloaded
        /\ GoalMatches(tasks[i].url)
        /\ currentUrl' = tasks[i].url)
         => /\ i \in DOMAIN tasks'
            /\ tasks'[i].pc = "startSession"]_vars


(***************************************************************************)
(* The other messages of handleMessage (service-worker.ts 271-337).  The   *)
(* handlers of INTERVENTION_RESULT and GET_CURRENT_SESSION use the         *)
(* SessionDetector created at service-worker.ts 16, not the one of the     *)
(* UsageMonitor (usage-monitor.ts 22).                                     *)
(***************************************************************************)

\* The result an overlay reports, and a message that carries none
\* (message.data undefined).
Result(userChoice) == [id |-> "result", userChoice |-> userChoice]
NoResult == [id |-> "", userChoice |-> ""]
Results == {Result("GO_BACK"), Result("PROCEED"), NoResult}

\* GET_CURRENT_SESSION 277-281: answered at once.
GetCurrentSession ==
  /\ Receive
  /\ Idle
  /\ messages' = Append(messages, Message("GET_CURRENT_SESSION", 0,
                                          <<Success(workerSession)>>, FALSE))
  /\ UNCHANGED <<browserVars, now, monitorVars, detectorVars, snoozedUntil,
                 storageVars, outputVars, tasks, running>>

\* PAGE_LOADED 300-303 and SUPABASE_AUTH_SUCCESS 317-321: acknowledged.
Acknowledge(type) ==
  /\ Receive
  /\ Idle
  /\ messages' = Append(messages, Message(type, 0, <<Success(0)>>, FALSE))
  /\ UNCHANGED <<browserVars, now, monitorVars, detectorVars, snoozedUntil,
                 storageVars, outputVars, tasks, running>>

\* default 333-335
UnknownMessage ==
  /\ Receive
  /\ Idle
  /\ messages' = Append(messages, Message("UNKNOWN", 0,
                          <<Failure("Unknown message type")>>, FALSE))
  /\ UNCHANGED <<browserVars, now, monitorVars, detectorVars, snoozedUntil,
                 storageVars, outputVars, tasks, running>>

\* GET_STATS 291-294: awaits the stats of the day.
GetStats ==
  /\ Receive
  /\ CanSpawn(1)
  /\ messages' = Append(messages, Message("GET_STATS", 0, <<>>, FALSE))
  /\ Spawn([Task("stats_getDailyStats", NoUrl, 0, "done") EXCEPT
              !.msg = Len(messages) + 1])
  /\ UNCHANGED <<browserVars, now, monitorVars, detectorVars, snoozedUntil,
                 storageVars, outputVars>>

GetStatsGetDailyStats(i) ==
  /\ Handling
  /\ UNCHANGED syncVars
  /\ At(i, "stats_getDailyStats")
  /\ Respond(tasks[i].msg, Success(dailyStats), FALSE)
  /\ Finish(i)
  /\ UNCHANGED <<browserVars, now, monitorVars, detectorVars, snoozedUntil,
                 storageVars, outputVars>>

\* CLOSE_CURRENT_TAB 323-331: awaits the active tab.
CloseCurrentTab ==
  /\ Receive
  /\ CanSpawn(1)
  /\ messages' = Append(messages, Message("CLOSE_CURRENT_TAB", 0, <<>>, FALSE))
  /\ Spawn([Task("close_query", NoUrl, 0, "done") EXCEPT
              !.msg = Len(messages) + 1])
  /\ UNCHANGED <<browserVars, now, monitorVars, detectorVars, snoozedUntil,
                 storageVars, outputVars>>

\* 326-331: the active tab is removed, on which the listeners of
\* onRemoved and onActivated run as for a tab the user closes; without an
\* active tab the answer is the failure.
CloseQuery(i) ==
  LET t == activeTab
      others == {o \in TabIds : o # t /\ tabs[o] # Closed}
      next == IF others = {} THEN 0 ELSE CHOOSE o \in others : TRUE
      removed == IF currentTabId = t
                   THEN <<Task("endCurrentSession", NoUrl, t, "done")>>
                   ELSE <<>>
      activated == IF next # 0
                     THEN <<Task("tabsGet", NoUrl, next, "done")>>
                     ELSE <<>>
  IN  /\ Handling
      /\ UNCHANGED syncVars
      /\ At(i, "close_query")
      /\ IF t = 0
           THEN /\ Respond(tasks[i].msg, Failure("No active tab found"), FALSE)
                /\ Finish(i)
                /\ UNCHANGED browserVars
           ELSE /\ Len(tasks) - 1 + Len(removed) + Len(activated) <= MaxTasks
                /\ tabs' = [tabs EXCEPT ![t] = Closed]
                /\ activeTab' = next
                /\ Respond(tasks[i].msg, Success(0), TRUE)
                /\ tasks' = Remove(tasks, i) \o activated \o removed
                /\ running' = IF removed = <<>> THEN 0 ELSE Len(tasks')
      /\ UNCHANGED <<now, monitorVars, detectorVars, snoozedUntil, storageVars,
                     outputVars>>

\* INTERVENTION_RESULT 273-275: recordInterventionResult(message.data) of
\* the service worker's SessionDetector, which awaits the stored results
\* (StorageService.saveInterventionResult).
InterventionResult(data) ==
  /\ Receive
  /\ CanSpawn(1)
  /\ messages' = Append(messages, Message("INTERVENTION_RESULT", data, <<>>,
                                          FALSE))
  /\ Spawn([Task("rec_getResults", NoUrl, 0, "done") EXCEPT
              !.msg = Len(messages) + 1])
  /\ UNCHANGED <<browserVars, now, monitorVars, detectorVars, snoozedUntil,
                 storageVars, outputVars>>

\* saveInterventionResult 578-582: the result is pushed and the list set.
RecGetResults(i) ==
  /\ Handling
  /\ At(i, "rec_getResults")
  /\ interventionResults' =
       Append(interventionResults, messages[tasks[i].msg].data)
  /\ messages' = [messages EXCEPT ![tasks[i].msg].changed = TRUE]
  /\ Continue(i, [tasks[i] EXCEPT !.pc = "rec_setResults"])
  /\ UNCHANGED <<browserVars, now, monitorVars, detectorVars, snoozedUntil,
                 storageVars, outputVars, authUser, goals, cloudVars, jobs>>

\* recordInterventionResult 337-338
RecSetResults(i) ==
  /\ Handling
  /\ UNCHANGED <<syncVars, messages>>
  /\ At(i, "rec_setResults")
  /\ Continue(i, [tasks[i] EXCEPT !.pc = "rec_getDailyStats"])
  /\ UNCHANGED <<browserVars, now, monitorVars, detectorVars, snoozedUntil,
                 storageVars, outputVars>>

\* SessionDetector.resetTimer, of the service worker's SessionDetector
resetTimer ==
  sessionObjects' =
    IF workerSession # 0
      THEN [sessionObjects EXCEPT ![workerSession].timerStartTime = now]
      ELSE sessionObjects

\* recordInterventionResult 340-348: the stats have been read.  The read
\* of result.userChoice throws when the message carried no data; otherwise
\* the choice is counted, GO_BACK resets the timer, and the stats are
\* saved.
RecGetDailyStats(i) ==
  LET result == messages[tasks[i].msg].data
  IN  /\ Handling
      /\ UNCHANGED syncVars
      /\ At(i, "rec_getDailyStats")
      /\ IF result = NoResult
           THEN /\ Respond(tasks[i].msg,
                           Failure("Cannot read properties of undefined"),
                           FALSE)
                /\ Finish(i)
                /\ UNCHANGED <<dailyStats, sessionObjects>>
           ELSE /\ dailyStats' =
                     [dailyStats EXCEPT
                        !.interventionsShown = @ + 1,
                        !.goBackCount =
                           IF result.userChoice = "GO_BACK" THEN @ + 1 ELSE @,
                        !.proceedCount =
                           IF result.userChoice = "PROCEED" THEN @ + 1 ELSE @]
                /\ IF result.userChoice = "GO_BACK" THEN resetTimer
                   ELSE UNCHANGED sessionObjects
                /\ UNCHANGED messages
                /\ Continue(i, [tasks[i] EXCEPT !.pc = "rec_saveDailyStats"])
      /\ UNCHANGED <<browserVars, now, monitorVars, currentSession,
                     snoozedUntil, settings, monitoringEnabled, storedSessions,
                     outputVars>>

\* 348, and the response of 275
RecSaveDailyStats(i) ==
  /\ Handling
  /\ UNCHANGED syncVars
  /\ At(i, "rec_saveDailyStats")
  /\ Respond(tasks[i].msg, Success(0), TRUE)
  /\ Finish(i)
  /\ UNCHANGED <<browserVars, now, monitorVars, detectorVars, snoozedUntil,
                 storageVars, outputVars>>

RecordSteps(i) ==
  \/ RecGetResults(i) \/ RecSetResults(i) \/ RecGetDailyStats(i)
  \/ RecSaveDailyStats(i)

MessageSteps(i) ==
  \/ RecordSteps(i) \/ GetStatsGetDailyStats(i) \/ CloseQuery(i)
  \/ ReloadGetSettings(i) \/ ToggleSteps(i)

MessageEvents ==
  \/ \E data \in Results : InterventionResult(data)
  \/ GetCurrentSession
  \/ \E d \in SnoozeDurations : SnoozeInterventions(d)
  \/ ClearSnooze
  \/ GetStats
  \/ ReloadSettings
  \/ \E type \in {"PAGE_LOADED", "SUPABASE_AUTH_SUCCESS"} : Acknowledge(type)
  \/ ToggleEvents
  \/ CloseCurrentTab
  \/ UnknownMessage

(***************************************************************************)
(* SpecMessages: the tracker of the active tab under navigation, with the  *)
(* runtime messages.                                                       *)
(***************************************************************************)
NextMessages ==
  \/ \E i \in 1..MaxTasks :
       \/ TabSteps(i) \/ EndSteps(i) \/ ShowSteps(i)
       \/ MessageSteps(i)
  \/ \E u \in Urls : UserNavigates(u)
  \/ MessageEvents
  \/ Loads
  \/ Tick

SpecMessages == Init /\ [][NextMessages]_vars

\* The handler of message k is over.
Handled(k) == \A i \in DOMAIN tasks : tasks[i].msg # k

\* C12: a message has at most one response, and exactly one once its
\* handler is over; an unknown type is answered with the failure 'Unknown
\* message type'; and a message answered with that failure, or with the
\* failure of a handler that threw, has changed nothing.
C12_OneResponsePerMessage ==
  \A k \in DOMAIN messages :
    LET m == messages[k]
    IN  /\ Len(m.answers) <= 1
        /\ Handled(k) => Len(m.answers) = 1
        /\ m.type = "UNKNOWN" =>
             m.answers = <<Failure("Unknown message type")>>
        /\ (/\ m.answers # <<>>
            /\ ~m.answers[1].success
            /\ m.answers[1].error # "No active tab found") => ~m.changed

\* C13: the data a GET_CURRENT_SESSION message is answered with is the
\* session the usage monitor has open, and null (0) only when it has none.
C13_ReportsTrackedSession ==
  [][\A k \in DOMAIN messages' :
       (k \notin DOMAIN messages /\ messages'[k].type = "GET_CURRENT_SESSION")
         => messages'[k].answers[1].data = currentSession]_vars


(***************************************************************************)
(* The overlay in the page (overlay-injector.tsx) and the friction         *)
(* (friction-manager.ts).  overlay is the state of the mounted component:  *)
(* canProceed and countdown are the state of ReminderOverlay, interval     *)
(* says that its setInterval is running, delaySeconds is the delay of the  *)
(* friction configuration it loaded, and elapsed counts the seconds (the   *)
(* ticks of the interval) since then.  overlayResults are the results      *)
(* handed to onResult, each with the overlay it came from.                 *)
(***************************************************************************)
FrictionLevels == {"gentle", "moderate", "firm", "locked", "auto"}

\* FRICTION_CONFIGS (delaySeconds)
FRICTION_CONFIGS ==
  [level \in FrictionLevels |->
     [delaySeconds |-> CASE level = "gentle" -> 0
                         [] level = "moderate" -> 3
                         [] level = "firm" -> 7
                         [] level = "locked" -> 15
                         [] level = "auto" -> 0]]

\* results.slice(-n)
slice(results, n) ==
  IF Len(results) <= n THEN results
  ELSE SubSeq(results, Len(results) - n + 1, Len(results))

\* FrictionManager.calculateAdaptiveFriction
calculateAdaptiveFriction(results) ==
  LET recent == slice(results, 20)
      proceedCount ==
        Cardinality({k \in DOMAIN recent : recent[k].userChoice = "PROCEED"})
  IN  IF Len(results) < 10 THEN "gentle"
      ELSE IF proceedCount * 10 > 8 * Len(recent) THEN "firm"
      ELSE IF proceedCount * 2 > Len(recent) THEN "moderate"
      ELSE "gentle"

\* FrictionManager.getFrictionConfig
getFrictionConfig(frictionLevel, results) ==
  LET level == IF frictionLevel = "auto"
                 THEN calculateAdaptiveFriction(results)
                 ELSE frictionLevel
  IN  [level |-> level, delaySeconds |-> FRICTION_CONFIGS[level].delaySeconds]

\* loadFriction 150: Math.max(0, friction.delaySeconds - 2)
reminderDelay(delaySeconds) ==
  IF delaySeconds - 2 > 0 THEN delaySeconds - 2 ELSE 0

\* A countdown taken to be over a second early.
countdownOverEarly(prev) == prev <= 2

\* The test of the interval's updater (158): the countdown is over.
countdownOver(prev) == prev <= 1

OverlayStep ==
  UNCHANGED <<trackerVars, settings, loading, events, syncVars, engineVars,
              workerSession, messages, reloaded, lastCheck>>

\* The result an overlay hands to onResult, with the state it was in.
Emit(userChoice) ==
  overlayResults' =
    Append(overlayResults,
           [result |-> Result(userChoice), style |-> overlay.style,
            loaded |-> overlay.loaded, countdown |-> overlay.countdown,
            elapsed |-> overlay.elapsed,
            delaySeconds |-> overlay.delaySeconds])

\* The content script mounts OverlayInjector for a reminder: the style is
\* 'full' until the stored one is read, so ReminderOverlay is rendered.
ShowIntervention ==
  /\ OverlayStep
  /\ overlay = NoOverlay
  /\ overlayResults = <<>>
  /\ overlay' = [NoOverlay EXCEPT !.style = "full"]
  /\ UNCHANGED overlayResults

\* OverlayInjector 27-34: the stored overlayStyle has been read.
LoadStyle(overlayStyle) ==
  /\ OverlayStep
  /\ overlay.style # "none"
  /\ ~overlay.styled
  /\ overlay' = [overlay EXCEPT !.styled = TRUE, !.style = overlayStyle]
  /\ UNCHANGED overlayResults

\* ReminderOverlay.loadFriction, once getFrictionConfig has resolved with
\* the stored frictionLevel.
LoadFriction(frictionLevel) ==
  LET friction == getFrictionConfig(frictionLevel, interventionResults)
      delaySeconds == reminderDelay(friction.delaySeconds)
  IN  /\ OverlayStep
      /\ overlay.style = "full"
      /\ ~overlay.loaded
      /\ overlay' = [overlay EXCEPT !.loaded = TRUE,
                                    !.delaySeconds = friction.delaySeconds,
                                    !.countdown = delaySeconds,
                                    !.canProceed = (delaySeconds = 0),
                                    !.interval = (delaySeconds # 0)]
      /\ UNCHANGED overlayResults

\* The callback of setInterval, a second later (156-165).
IntervalTick ==
  /\ OverlayStep
  /\ overlay.style = "full"
  /\ overlay.interval
  /\ overlay' =
       IF countdownOver(overlay.countdown)
         THEN [overlay EXCEPT !.interval = FALSE, !.canProceed = TRUE,
                              !.countdown = 0, !.elapsed = @ + 1]
         ELSE [overlay EXCEPT !.countdown = @ - 1, !.elapsed = @ + 1]
  /\ UNCHANGED overlayResults

\* ReminderOverlay.handleProceed; handleResult closes the overlay.
HandleProceed ==
  /\ OverlayStep
  /\ overlay.style = "full"
  /\ IF ~overlay.canProceed
       THEN UNCHANGED <<overlay, overlayResults>>
       ELSE /\ Emit("PROCEED")
            /\ overlay' = NoOverlay

\* ReminderOverlay.handleGoBack and handleSnooze
HandleLeave(userChoice) ==
  /\ OverlayStep
  /\ overlay.style = "full"
  /\ Emit(userChoice)
  /\ overlay' = NoOverlay

\* CompactOverlay.handleGoBack
CompactGoBack ==
  /\ OverlayStep
  /\ overlay.style = "compact"
  /\ Emit("GO_BACK")
  /\ overlay' = NoOverlay

\* CompactOverlay.handleProceed: onClose(), no result
CompactProceed ==
  /\ OverlayStep
  /\ overlay.style = "compact"
  /\ overlay' = NoOverlay
  /\ UNCHANGED overlayResults

\* n times x
Repeat(x, n) == [k \in 1..n |-> x]

\* Stored results: none, and ten of them of which the user proceeded at
\* all, at six and at none.
Histories ==
  {<<>>, Repeat(Result("PROCEED"), 10),
   Repeat(Result("PROCEED"), 6) \o Repeat(Result("GO_BACK"), 4),
   Repeat(Result("GO_BACK"), 10)}

InitOverlay ==
  /\ tabs = [t \in TabIds |-> UrlSite]
  /\ activeTab = 1
  /\ now = 1
  /\ currentTabId = 0
  /\ currentUrl = NoUrl
  /\ sessionStartTime = 0
  /\ isUserActive = TRUE
  /\ isBrowserFocused = TRUE
  /\ isEnabled = TRUE
  /\ trackedSites = <<>>
  /\ loading = {}
  /\ currentSession = 0
  /\ sessionObjects = <<>>
  /\ snoozedUntil = 0
  /\ settings = getDefaultSettings
  /\ monitoringEnabled = TRUE
  /\ dailyStats = createEmptyStats
  /\ storedSessions = <<>>
  /\ sent = NoMessage
  /\ notifications = <<>>
  /\ tasks = <<>>
  /\ running = 0
  /\ events = 0
  /\ authUser = 0
  /\ goals = <<>>
  /\ interventionResults \in Histories
  /\ cloudSettings = NoSettings
  /\ cloudGoals = <<>>
  /\ cloudResults = <<>>
  /\ writes = <<>>
  /\ jobs = <<>>
  /\ lastShownContent = <<>>
  /\ first = <<>>
  /\ selected = <<>>
  /\ selections = 0
  /\ workerSession = 0
  /\ messages = <<>>
  /\ reloaded = FALSE
  /\ lastCheck = 0
  /\ overlay = NoOverlay
  /\ overlayResults = <<>>

(***************************************************************************)
(* SpecOverlay: one reminder shown in the page, under any stored friction  *)
(* level, overlay style and history of results.                            *)
(***************************************************************************)
NextOverlay ==
  \/ ShowIntervention
  \/ \E overlayStyle \in {"full", "compact"} : LoadStyle(overlayStyle)
  \/ \E frictionLevel \in FrictionLevels : LoadFriction(frictionLevel)
  \/ IntervalTick
  \/ HandleProceed
  \/ \E userChoice \in {"GO_BACK", "SNOOZE"} : HandleLeave(userChoice)
  \/ CompactGoBack
  \/ CompactProceed

SpecOverlay == InitOverlay /\ [][NextOverlay]_vars

\* C14: in the reminder overlay whose friction configuration has delay d
\* seconds, the countdown starts at max(0, d - 2) and loses one a second;
\* with delay 0 the user can proceed as soon as the friction is loaded; and
\* every result PROCEED was emitted with the friction loaded, the countdown
\* at 0 and max(0, d - 2) seconds after it started.
C14_ProceedOnlyAfterCountdown ==
  LET started(d) == IF d > 2 THEN d - 2 ELSE 0
  IN  /\ overlay.loaded =>
           overlay.countdown + overlay.elapsed = started(overlay.delaySeconds)
      /\ (overlay.loaded /\ overlay.delaySeconds = 0) => overlay.canProceed
      /\ \A k \in DOMAIN overlayResults :
           LET r == overlayResults[k]
           IN  r.result.userChoice = "PROCEED" =>
                 /\ r.loaded
                 /\ r.countdown = 0
                 /\ r.elapsed >= started(r.delaySeconds)

\* A PROCEED result of an overlay whose friction delay made it count down.
C14_ProceededAfterCountdown ==
  \E k \in DOMAIN overlayResults :
     /\ overlayResults[k].result.userChoice = "PROCEED"
     /\ overlayResults[k].delaySeconds > 2
     /\ overlayResults[k].elapsed > 0


(***************************************************************************)
(* The sessions of the tracker, under Spec.                                *)
(***************************************************************************)

\* The usage monitor has the session of site name open.
TrackingSite(name) ==
  /\ currentSession # 0
  /\ sessionStartTime # 0
  /\ currentUrl # NoUrl
  /\ sessionObjects[currentSession].siteName = name

\* C15: when onTabActivated runs for a URL of the site whose session is
\* open, it does not go on to end that session, and does not go on to
\* start a session.
C15_SameSiteKeepsSession ==
  [][\A i \in DOMAIN tasks :
       (/\ running = i
        /\ tasks[i].pc \in {"onTabActivated", "activate"}
        /\ isEnabled
        /\ matchTrackedSite(trackedSites, tasks[i].url) # NoSite
        /\ TrackingSite(matchTrackedSite(trackedSites, tasks[i].url).name))
         => /\ i \in DOMAIN tasks'
               => tasks'[i].pc \notin {"endCurrentSession", "startSession"}]_vars


\* C16: a session is counted at most once in the stats of the day: the
\* count of sessions there is never more than the sessions started.
C16_SessionCountedOnce ==
  dailyStats.sessionCount <= Len(sessionObjects)


\* C17: a session is started only when no session is open: the session
\* detector takes a new current session only from having none.
C17_StartsOnlyWhenNoneOpen ==
  [][(currentSession' # currentSession /\ currentSession' # 0)
       => currentSession = 0]_vars


(***************************************************************************)
(* SpecTimer: the timer alerts of an open session.  It starts where the    *)
(* active tab has been on the tracked site since minute 1, the session of  *)
(* that visit is open and stored, no handler is in flight, and the timer   *)
(* duration of the settings is two minutes; from there the checkUsage      *)
(* alarm fires and the results of overlays arrive.                         *)
(***************************************************************************)
MaxTimerTime == 4

OpenSession ==
  [id |-> 1, siteName |-> SiteFb.name, url |-> UrlSite, startTime |-> 1,
   lastActiveTime |-> 1, totalDuration |-> 0, timerStartTime |-> 1,
   lastTimerAlertTime |-> 0, dailyLimitMinutes |-> SiteFb.dailyLimitMinutes]

InitTimer ==
  /\ tabs = [t \in TabIds |-> IF t = 1 THEN UrlSite ELSE UrlOther]
  /\ activeTab = 1
  /\ now = 1
  /\ currentTabId = 1
  /\ currentUrl = UrlSite
  /\ sessionStartTime = 1
  /\ isUserActive = TRUE
  /\ isBrowserFocused = TRUE
  /\ isEnabled = TRUE
  /\ trackedSites = <<SiteFb>>
  /\ loading = {}
  /\ currentSession = 1
  /\ sessionObjects = <<OpenSession>>
  /\ snoozedUntil = 0
  /\ settings = [getDefaultSettings EXCEPT !.trackedSites = <<SiteFb>>,
                                           !.timerDurationMinutes = 2,
                                           !.alwaysShowReminder = FALSE]
  /\ monitoringEnabled = TRUE
  /\ dailyStats = createEmptyStats
  /\ storedSessions = <<OpenSession>>
  /\ sent = NoMessage
  /\ notifications = <<>>
  /\ tasks = <<>>
  /\ running = 0
  /\ events = 0
  /\ authUser = 0
  /\ goals = <<>>
  /\ interventionResults = <<>>
  /\ cloudSettings = NoSettings
  /\ cloudGoals = <<>>
  /\ cloudResults = <<>>
  /\ writes = <<>>
  /\ jobs = <<>>
  /\ lastShownContent = <<>>
  /\ first = <<>>
  /\ selected = <<>>
  /\ selections = 0
  /\ workerSession = 0
  /\ messages = <<>>
  /\ reloaded = TRUE
  /\ lastCheck = 0
  /\ overlay = NoOverlay
  /\ overlayResults = <<>>

\* A minute passes.
Minute ==
  /\ Step
  /\ Idle
  /\ now < MaxTimerTime
  /\ now' = now + 1
  /\ UNCHANGED <<browserVars, monitorVars, detectorVars, snoozedUntil,
                 storageVars, outputVars, tasks, running>>

NextTimer ==
  \/ \E i \in 1..MaxTasks : UpdSteps(i) \/ ShowSteps(i) \/ RecordSteps(i)
  \/ CheckUsageAlarm
  \/ \E data \in Results : InterventionResult(data)
  \/ Minute

SpecTimer == InitTimer /\ [][NextTimer]_vars

\* C18: two timer alerts sent for the same session are at least
\* timerDurationMinutes apart.
C18_TimerAlertsApart ==
  [][(/\ sent' # sent
      /\ sent.type = "TIMER" /\ sent'.type = "TIMER"
      /\ sent'.session = sent.session)
       => sent'.time - sent.time >= settings.timerDurationMinutes]_vars

\* C19: when the recording of a GO_BACK result reaches the reset of the
\* timer while the usage monitor has a session open, the timerStartTime of
\* that session becomes the time of the recording.
C19_GoBackResetsTimer ==
  [][\A i \in DOMAIN tasks :
       (/\ tasks[i].pc = "rec_getDailyStats"
        /\ messages[tasks[i].msg].data.userChoice = "GO_BACK"
        /\ currentSession # 0
        /\ RecGetDailyStats(i))
         => sessionObjects'[currentSession].timerStartTime = now]_vars

=============================================================================
